---------------------------- MODULE Spec2Model ----------------------------
(***************************************************************************)
(* A model of the UAV simulator (simulator/simulator.py) and of the path   *)
(* planner's request handler (pathplanner/pathPlanner.py).                 *)
(*                                                                         *)
(* The simulator computes on Python floats.  The model computes on         *)
(* fixed-point integers:                                                   *)
(*   position            millimetres                                       *)
(*   velocity            millimetres per second                            *)
(*   dt                  tenths of a second                                *)
(*   battery             thousandths of a percent                          *)
(*   yaw                 degrees                                           *)
(* Every value the code assigns is computed exactly from the values it      *)
(* reads and then truncated toward zero onto the fixed-point grid.         *)
(***************************************************************************)
EXTENDS Integers, Sequences, FiniteSets, TLC

VARIABLES
    uav,        \* the fields of UAVSimulator
    response,   \* the value the last handle_command call returned
    nticks,     \* number of physics ticks with dt > 0 taken so far
    plan_request,   \* the request the path planner service is handling
    plan_reply,     \* the status and body its handler returned
    grid_run,       \* the planner's grid search in progress: inputs and results
    main_pc,        \* where connect_to_backend and handle_message stand
    ticker_pc,      \* where the physics_loop task stands
    websocket,      \* the state of self.websocket
    running,        \* self.running
    inbox,          \* the messages received and not yet consumed
    outbox,         \* the messages sent and not yet taken by the backend
    handled,        \* handle_message's data, a command being handled
    tick_dt,        \* physics_loop's dt
    since_update,   \* time.time() - self.uav.last_update
    connect_gap,    \* since_update as it was when the connection was made
    response_sent   \* whether the last command's response went on the channel

\* the variables of the path planner
planner_vars == <<plan_request, plan_reply, grid_run>>

\* the variables of SimulatorServer
server_vars == <<main_pc, ticker_pc, websocket, running, inbox, outbox, handled,
                 tick_dt, since_update, connect_gap, response_sent>>

vars == <<uav, response, nticks, planner_vars, server_vars>>

---------------------------------------------------------------------------
(* Units *)

\* position and velocity units per metre (and per metre per second)
MM == 1000
\* dt units per second
DS == 10
\* battery units per percent
MPCT == 1000

---------------------------------------------------------------------------
(* Bounds of the model *)

\* most physics ticks with dt > 0 in one behaviour
MaxTicks == 4
\* the regular tick period, in dt units
DtTick == 1
\* a long gap between two ticks (the simulator was disconnected), in dt units
DtLong == 89995
\* largest |coordinate| and |velocity component| a tick may produce
MaxCoord == 12000
MaxSpeed == 20000

---------------------------------------------------------------------------
(* Arithmetic helpers *)

Max(a, b) == IF a >= b THEN a ELSE b
Min(a, b) == IF a <= b THEN a ELSE b
Abs(a) == IF a >= 0 THEN a ELSE -a

\* a / b truncated toward zero (b > 0)
TDiv(a, b) == IF a >= 0 THEN a \div b ELSE -((-a) \div b)

\* the largest r in lo..hi with r*r <= n, by bisection (t = <<n, lo, hi>>)
ISqrtIn[t \in Nat \X Nat \X Nat] ==
    IF t[2] >= t[3] THEN t[2]
    ELSE LET mid == (t[2] + t[3] + 1) \div 2
         IN  IF mid * mid <= t[1]
             THEN ISqrtIn[<<t[1], mid, t[3]>>]
             ELSE ISqrtIn[<<t[1], t[2], mid - 1>>]

\* math.sqrt on the fixed-point grid: the largest r with r*r <= n
ISqrt(n) == ISqrtIn[<<n, 0, 46340>>]

Vec(a, b, c) == [x |-> a, y |-> b, z |-> c]
ZeroVec == Vec(0, 0, 0)

---------------------------------------------------------------------------
(* UAVSimulator.__init__ *)

\* Physics constants
max_velocity == 33330
acceleration == 5
\* drag_coefficient = 0.5, as a fraction
drag_coefficient_num == 1
drag_coefficient_den == 2
\* Battery drain rate, in battery units per dt unit
battery_drain_idle == 1
battery_drain_flying == 5

\* 100.0 and 10.0 percent
BatteryFull == 100 * MPCT
BatteryLow == 10 * MPCT

\* target_position is None (the empty sequence) or one position
None == << >>
Some(p) == << p >>

UAVInit ==
    [ position |-> ZeroVec,
      velocity |-> ZeroVec,
      orientation |-> [pitch |-> 0, roll |-> 0, yaw |-> 0],
      battery |-> BatteryFull,
      status |-> "idle",
      armed |-> FALSE,
      target_position |-> None ]

---------------------------------------------------------------------------
(* UAVSimulator.update_physics *)

\* mutant: the drained value is not cut to [0, 100]
battery_drain_unclamped(u, dt) ==
    [u EXCEPT !.battery = IF u.status = "flying"
                          THEN u.battery - battery_drain_flying * dt
                          ELSE u.battery - battery_drain_idle * dt]

\* Battery drain
battery_drain(u, dt) ==
    LET drained == IF u.status = "flying"
                   THEN u.battery - battery_drain_flying * dt
                   ELSE u.battery - battery_drain_idle * dt
    IN  [u EXCEPT !.battery = Max(0, Min(BatteryFull, drained))]

\* mutant: the emergency landing keeps the target of the earlier command
emergency_landing_keeps_target(u) ==
    IF u.battery < BatteryLow /\ u.status = "flying"
    THEN [u EXCEPT !.status = "landing"]
    ELSE u

\* Emergency landing if battery low
emergency_landing(u) ==
    IF u.battery < BatteryLow /\ u.status = "flying"
    THEN [u EXCEPT !.status = "landing",
                   !.target_position = Some(Vec(u.position.x, u.position.y, 0))]
    ELSE u

\* position += velocity * dt
integrate_position(u, dt) ==
    LET step(p, v) == TDiv(p * DS + v * dt, DS)
    IN  [u EXCEPT !.position = Vec(step(u.position.x, u.velocity.x),
                                   step(u.position.y, u.velocity.y),
                                   step(u.position.z, u.velocity.z))]

\* mutant: the ground stops only a landing vehicle
ground_constraint_landing_only(u) ==
    IF u.position.z < 0 /\ u.status = "landing"
    THEN [u EXCEPT !.position.z = 0, !.status = "armed", !.velocity = ZeroVec]
    ELSE u

\* mutant: the ground constraint fires at z = 0 too
ground_constraint_at_zero(u) ==
    IF u.position.z <= 0
    THEN LET g == [u EXCEPT !.position.z = 0, !.velocity.z = 0]
         IN  IF g.status = "landing"
             THEN [g EXCEPT !.status = "armed", !.velocity = ZeroVec]
             ELSE g
    ELSE u

\* Ground constraint
ground_constraint(u) ==
    IF u.position.z < 0
    THEN LET g == [u EXCEPT !.position.z = 0, !.velocity.z = 0]
         IN  IF g.status = "landing"
             THEN [g EXCEPT !.status = "armed", !.velocity = ZeroVec]
             ELSE g
    ELSE u

\* Apply drag: velocity -= (velocity / speed) * (drag_coefficient * speed) * dt,
\* which is velocity * (1 - drag_coefficient * dt) per component
apply_drag(u, dt) ==
    LET v == u.velocity
        speed == ISqrt(v.x * v.x + v.y * v.y + v.z * v.z)
        drag(c) == TDiv(c * (drag_coefficient_den * DS - drag_coefficient_num * dt),
                        drag_coefficient_den * DS)
    IN  IF speed > 0
        THEN [u EXCEPT !.velocity = Vec(drag(v.x), drag(v.y), drag(v.z))]
        ELSE u

\* mutant: the position follows the velocity in every status
update_position_any_status(u, dt) ==
    apply_drag(ground_constraint(integrate_position(u, dt)), dt)

\* Update position based on velocity
update_position(u, dt) ==
    IF u.status \in {"flying", "landing"}
    THEN apply_drag(ground_constraint(integrate_position(u, dt)), dt)
    ELSE u

\* Move towards target position
move_towards_target(u, dt) ==
    IF Len(u.target_position) > 0 /\ u.status = "flying"
    THEN LET t == u.target_position[1]
             dx == t.x - u.position.x
             dy == t.y - u.position.y
             dz == t.z - u.position.z
             distance == ISqrt(dx * dx + dy * dy + dz * dz)
         IN  IF distance < MM \div 2
             THEN [u EXCEPT !.target_position = None, !.velocity = ZeroVec]
             ELSE LET tv(d) == TDiv(d * max_velocity, 2 * distance)
                      blend(c, d) == TDiv(c * DS + (tv(d) - c) * acceleration * dt, DS)
                  IN  [u EXCEPT !.velocity = Vec(blend(u.velocity.x, dx),
                                                 blend(u.velocity.y, dy),
                                                 blend(u.velocity.z, dz))]
    ELSE u

update_physics(u, dt) ==
    move_towards_target(update_position(emergency_landing(battery_drain(u, dt)), dt), dt)

---------------------------------------------------------------------------
(* UAVSimulator.handle_command *)

\* params.get(key, default)
Get(params, key, default) == IF key \in DOMAIN params THEN params[key] ELSE default

Response(command, success, message) ==
    [type |-> "command_response", command |-> command,
     success |-> success, message |-> message]

Result(u, r) == [uav |-> u, response |-> r]

cmd_arm(u) ==
    IF ~u.armed /\ u.position.z < MM \div 10
    THEN Result([u EXCEPT !.armed = TRUE, !.status = "armed"],
                Response("arm", TRUE, "UAV armed"))
    ELSE Result(u, Response("arm", FALSE, "Cannot arm (already armed or not on ground)"))

\* mutant: disarm clears the armed flag and forgets the status
cmd_disarm_keeps_status(u) ==
    IF u.armed /\ u.position.z < MM \div 10
    THEN Result([u EXCEPT !.armed = FALSE], Response("disarm", TRUE, "UAV disarmed"))
    ELSE Result(u, Response("disarm", FALSE, "Cannot disarm (not on ground or not armed)"))

cmd_disarm(u) ==
    IF u.armed /\ u.position.z < MM \div 10
    THEN Result([u EXCEPT !.armed = FALSE, !.status = "idle"],
                Response("disarm", TRUE, "UAV disarmed"))
    ELSE Result(u, Response("disarm", FALSE, "Cannot disarm (not on ground or not armed)"))

\* mutant: takeoff is accepted whenever the vehicle is armed
cmd_takeoff_any_armed(u, params) ==
    IF u.armed
    THEN LET altitude == Get(params, "altitude", 10 * MM)
         IN  Result([u EXCEPT !.status = "flying",
                              !.target_position = Some(Vec(u.position.x, u.position.y, altitude))],
                    Response("takeoff", TRUE, "Taking off to " \o ToString(altitude) \o "m"))
    ELSE Result(u, Response("takeoff", FALSE, "Cannot takeoff (not armed or already flying)"))

cmd_takeoff(u, params) ==
    IF u.armed /\ u.status = "armed"
    THEN LET altitude == Get(params, "altitude", 10 * MM)
         IN  Result([u EXCEPT !.status = "flying",
                              !.target_position = Some(Vec(u.position.x, u.position.y, altitude))],
                    Response("takeoff", TRUE, "Taking off to " \o ToString(altitude) \o "m"))
    ELSE Result(u, Response("takeoff", FALSE, "Cannot takeoff (not armed or already flying)"))

\* mutant: land is accepted in every status but idle
cmd_land_unguarded(u) ==
    IF u.status # "idle"
    THEN Result([u EXCEPT !.status = "landing",
                          !.target_position = Some(Vec(u.position.x, u.position.y, 0))],
                Response("land", TRUE, "Landing initiated"))
    ELSE Result(u, Response("land", FALSE, "Cannot land (not flying)"))

cmd_land(u) ==
    IF u.status = "flying"
    THEN Result([u EXCEPT !.status = "landing",
                          !.target_position = Some(Vec(u.position.x, u.position.y, 0))],
                Response("land", TRUE, "Landing initiated"))
    ELSE Result(u, Response("land", FALSE, "Cannot land (not flying)"))

\* mutant: the target altitude is not clamped at the ground
cmd_move_unclamped(u, params) ==
    IF u.status = "flying"
    THEN LET dx == Get(params, "dx", 0)
             dy == Get(params, "dy", 0)
             dz == Get(params, "dz", 0)
         IN  Result([u EXCEPT !.target_position =
                         Some(Vec(u.position.x + dx, u.position.y + dy, u.position.z + dz))],
                    Response("move", TRUE, "Moving by (" \o ToString(dx) \o ", "
                                           \o ToString(dy) \o ", " \o ToString(dz) \o ")"))
    ELSE Result(u, Response("move", FALSE, "Cannot move (not flying)"))

cmd_move(u, params) ==
    IF u.status = "flying"
    THEN LET dx == Get(params, "dx", 0)
             dy == Get(params, "dy", 0)
             dz == Get(params, "dz", 0)
         IN  Result([u EXCEPT !.target_position =
                         Some(Vec(u.position.x + dx, u.position.y + dy,
                                  Max(0, u.position.z + dz)))],
                    Response("move", TRUE, "Moving by (" \o ToString(dx) \o ", "
                                           \o ToString(dy) \o ", " \o ToString(dz) \o ")"))
    ELSE Result(u, Response("move", FALSE, "Cannot move (not flying)"))

cmd_rotate(u, params) ==
    IF u.status = "flying"
    THEN LET yaw_change == Get(params, "yaw", 0)
         IN  Result([u EXCEPT !.orientation.yaw = (u.orientation.yaw + yaw_change) % 360],
                    Response("rotate", TRUE, "Rotating by " \o ToString(yaw_change)))
    ELSE Result(u, Response("rotate", FALSE, "Cannot rotate (not flying)"))

cmd_goto(u, params) ==
    IF u.status = "flying"
    THEN LET x == Get(params, "x", u.position.x)
             y == Get(params, "y", u.position.y)
             z == Get(params, "z", u.position.z)
         IN  Result([u EXCEPT !.target_position = Some(Vec(x, y, Max(0, z)))],
                    Response("goto", TRUE, "Going to position (" \o ToString(x) \o ", "
                                           \o ToString(y) \o ", " \o ToString(z) \o ")"))
    ELSE Result(u, Response("goto", FALSE, "Cannot goto (not flying)"))

handle_command(u, command_data) ==
    LET command == command_data.command
        params == command_data.params
    IN  CASE command = "arm" -> cmd_arm(u)
          [] command = "disarm" -> cmd_disarm(u)
          [] command = "takeoff" -> cmd_takeoff(u, params)
          [] command = "land" -> cmd_land(u)
          [] command = "move" -> cmd_move(u, params)
          [] command = "rotate" -> cmd_rotate(u, params)
          [] command = "goto" -> cmd_goto(u, params)
          [] OTHER -> Result(u, Response(command, FALSE, "Unknown command: " \o command))

---------------------------------------------------------------------------
(* The commands and the tick periods the environment sends *)

NoParams == << >>

Cmd(name, params) == [command |-> name, params |-> params]

CommandList ==
    << Cmd("arm", NoParams),
       Cmd("disarm", NoParams),
       Cmd("takeoff", [altitude |-> MM]),
       Cmd("takeoff", [altitude |-> -MM]),
       Cmd("land", NoParams),
       Cmd("move", [dx |-> MM, dz |-> -MM]),
       Cmd("rotate", [yaw |-> 180]),
       Cmd("goto", [x |-> 0, z |-> -MM]),
       Cmd("hover", NoParams) >>

Commands == { CommandList[i] : i \in 1..Len(CommandList) }

DtSet == {0, DtTick, DtLong}

---------------------------------------------------------------------------
(* The simulator: handle_command calls and update_physics ticks, interleaved *)

Init ==
    /\ uav = UAVInit
    /\ response = Response("", FALSE, "")
    /\ nticks = 0
    /\ plan_request = None
    /\ plan_reply = None
    /\ grid_run = None
    /\ main_pc = "connect"
    /\ ticker_pc = "none"
    /\ websocket = "none"
    /\ running = FALSE
    /\ inbox = << >>
    /\ outbox = << >>
    /\ handled = None
    /\ tick_dt = 0
    /\ since_update = 0
    /\ connect_gap = 0
    /\ response_sent = TRUE

HandleCommand(c) ==
    /\ uav' = handle_command(uav, c).uav
    /\ response' = handle_command(uav, c).response
    /\ UNCHANGED <<nticks, planner_vars, server_vars>>

InBox(u) ==
    /\ \A c \in {u.position.x, u.position.y, u.position.z} : Abs(c) <= MaxCoord
    /\ \A c \in {u.velocity.x, u.velocity.y, u.velocity.z} : Abs(c) <= MaxSpeed

\* the vehicle neither moves nor seeks a target
AtRest(u) == u.velocity = ZeroVec /\ ~(u.status = "flying" /\ Len(u.target_position) > 0)

\* one pass of physics_loop's body: update_physics(dt)
Tick(dt) ==
    /\ dt > 0 => nticks < MaxTicks
    /\ dt > DtTick => AtRest(uav)
    /\ InBox(update_physics(uav, dt))
    /\ uav' = update_physics(uav, dt)
    /\ nticks' = IF dt > 0 THEN nticks + 1 ELSE nticks
    /\ UNCHANGED <<response, planner_vars, server_vars>>

Command == \E i \in 1..Len(CommandList) : HandleCommand(CommandList[i])

PhysicsTick == \E dt \in DtSet : Tick(dt)

Next == Command \/ PhysicsTick

Spec == Init /\ [][Next]_vars

---------------------------------------------------------------------------
(* The takeoff-land cycle: arm, takeoff, ticks until the takeoff target is  *)
(* reached, land, and from then on ticks alone.  The ticker runs for as     *)
(* long as the simulator is connected, so ticks are weakly fair.  A vehicle *)
(* in motion is ticked at the regular period, a vehicle at rest after long  *)
(* gaps.                                                                    *)

CycleAltitudes == {MM, 2 * MM, 3 * MM, 5 * MM}

CycleArm == uav.status = "idle" /\ HandleCommand(Cmd("arm", NoParams))

CycleTakeoff ==
    /\ uav.status = "armed"
    /\ \/ \E a \in CycleAltitudes : HandleCommand(Cmd("takeoff", [altitude |-> a]))
       \/ HandleCommand(Cmd("takeoff", NoParams))

CycleLand ==
    /\ uav.status = "flying" /\ ~(Len(uav.target_position) > 0)
    /\ HandleCommand(Cmd("land", NoParams))

CycleTick ==
    \E dt \in {DtTick, DtLong} :
        /\ dt = (IF AtRest(uav) THEN DtLong ELSE DtTick)
        /\ uav' = update_physics(uav, dt)
        /\ UNCHANGED <<response, nticks, planner_vars, server_vars>>

CycleNext == CycleArm \/ CycleTakeoff \/ CycleLand \/ CycleTick

CycleSpec == Init /\ [][CycleNext]_vars /\ WF_vars(CycleTick)

---------------------------------------------------------------------------
(* The path planner (pathplanner/pathPlanner.py).                          *)
(*                                                                         *)
(* Planar coordinates are fixed-point too: x and y of an endpoint, of a    *)
(* jammer and of a waypoint, and a radius in coordinate units, are in      *)
(* quarters of a coordinate unit; a jammer's radius as received is in      *)
(* metres; grid cells are pairs of integers; path costs are in thousandths *)
(* of a cell side; a path length is in hundredths of a coordinate unit.    *)
(* A scale factor is the fraction <<numerator, denominator>>.  Endpoints   *)
(* and jammers carry an id and planar coordinates and no lat/lng, so the   *)
(* planner takes its fallback scale factor and its waypoints have x, y and *)
(* alt only.  Path costs add up exactly, so two paths of equal cost tie;   *)
(* the code's floating-point sums of 1.0 and sqrt(2) can differ in the     *)
(* last bit with the order of the summands, which can change which of      *)
(* several equal-cost paths A* returns.                                    *)

\* Grid resolution multiplier
GRID_SCALE == 2
\* planar units per coordinate unit
QU == 4
\* cost units per cell side
CostScale == 1000
\* math.sqrt(2) in cost units
SQRT2 == 1414
\* metres per coordinate unit of the fallback scale factor 0.0001
fallback_meters_per_coord == 10000
fallback_scale_factor == <<1, fallback_meters_per_coord>>
\* cells of padding around the unscaled bounding box
grid_padding == 50
\* nearest_free_cell's default max_radius
max_radius == 500
\* the altitude of every waypoint, in metres
default_alt == 50
\* path-length units per coordinate unit
CENTI == 100

FloorDiv(a, b) == a \div b
CeilDiv(a, b) == -((-a) \div b)

\* Python's round(): to the nearest integer, a tie to the even one
RoundHalfEven(n, d) ==
    LET q == FloorDiv(n, d)
        rem == n - q * d
    IN  IF 2 * rem < d THEN q
        ELSE IF 2 * rem > d THEN q + 1
        ELSE IF q % 2 = 0 THEN q ELSE q + 1

SetMin(S) == CHOOSE m \in S : \A o \in S : m <= o
SetMax(S) == CHOOSE m \in S : \A o \in S : m >= o

Put(f, k, v) == [o \in DOMAIN f \cup {k} |-> IF o = k THEN v ELSE f[o]]

\* euclidean_distance between two cells, in cost units
euclidean_distance(p1, p2) ==
    ISqrt(((p1[1] - p2[1]) * (p1[1] - p2[1]) + (p1[2] - p2[2]) * (p1[2] - p2[2]))
          * CostScale * CostScale)

directions ==
    << <<0, 1>>, <<0, -1>>, <<1, 0>>, <<-1, 0>>,
       <<1, 1>>, <<1, -1>>, <<-1, 1>>, <<-1, -1>> >>

InGrid(c, grid_size) ==
    /\ grid_size.x_min <= c[1] /\ c[1] <= grid_size.x_max
    /\ grid_size.y_min <= c[2] /\ c[2] <= grid_size.y_max

get_neighbors(node, grid_size) ==
    SelectSeq([i \in 1..Len(directions) |->
                  <<node[1] + directions[i][1], node[2] + directions[i][2]>>],
              LAMBDA c : InGrid(c, grid_size))

\* mutant: the columns of the ring are visited before its rows
ring_cells_columns_first(x0, y0, r) ==
    [k \in 1..(2 * (2 * r - 1)) |->
        <<x0 + (IF k % 2 = 1 THEN -r ELSE r), y0 - r + 1 + (k - 1) \div 2>>]
    \o
    [k \in 1..(2 * (2 * r + 1)) |->
        <<x0 - r + (k - 1) \div 2, y0 + (IF k % 2 = 1 THEN -r ELSE r)>>]

\* the cells of the ring at Chebyshev distance r around (x0, y0), in the
\* order nearest_free_cell visits them
ring_cells(x0, y0, r) ==
    [k \in 1..(2 * (2 * r + 1)) |->
        <<x0 - r + (k - 1) \div 2, y0 + (IF k % 2 = 1 THEN -r ELSE r)>>]
    \o
    [k \in 1..(2 * (2 * r - 1)) |->
        <<x0 + (IF k % 2 = 1 THEN -r ELSE r), y0 - r + 1 + (k - 1) \div 2>>]

RECURSIVE ring_search(_, _, _, _, _, _)
ring_search(x0, y0, r, blocked_set, grid_size, cap) ==
    IF r > cap THEN <<x0, y0>>
    ELSE LET ring == ring_cells(x0, y0, r)
             free == { k \in 1..Len(ring) :
                          InGrid(ring[k], grid_size) /\ ring[k] \notin blocked_set }
         IN  IF free # {} THEN ring[SetMin(free)]
             ELSE ring_search(x0, y0, r + 1, blocked_set, grid_size, cap)

\* the largest Chebyshev distance from (x0, y0) to a cell of the grid: the
\* rings beyond it hold no in-bounds cell, and nearest_free_cell's loop runs
\* through them up to its cap without returning
grid_reach(x0, y0, grid_size) ==
    SetMax({Abs(x0 - grid_size.x_min), Abs(x0 - grid_size.x_max),
            Abs(y0 - grid_size.y_min), Abs(y0 - grid_size.y_max)})

\* point is a cell, so round() leaves its coordinates as they are
nearest_free_cell(point, blocked_set, grid_size, cap) ==
    IF point \notin blocked_set THEN point
    ELSE ring_search(point[1], point[2], 1, blocked_set, grid_size,
                     SetMin({cap, grid_reach(point[1], point[2], grid_size)}))

RECURSIVE bresenham_loop(_, _, _, _, _, _, _, _, _)
bresenham_loop(x0, y0, x1, y1, dx, sx, dy, sy, err) ==
    IF x0 = x1 /\ y0 = y1 THEN << <<x0, y0>> >>
    ELSE LET e2 == 2 * err
             err1 == IF e2 >= dy THEN err + dy ELSE err
             xn == IF e2 >= dy THEN x0 + sx ELSE x0
             err2 == IF e2 <= dx THEN err1 + dx ELSE err1
             yn == IF e2 <= dx THEN y0 + sy ELSE y0
         IN  << <<x0, y0>> >> \o bresenham_loop(xn, yn, x1, y1, dx, sx, dy, sy, err2)

bresenham_line_cells(a, b) ==
    LET dx == Abs(b[1] - a[1])
        sx == IF a[1] < b[1] THEN 1 ELSE -1
        dy == -Abs(b[2] - a[2])
        sy == IF a[2] < b[2] THEN 1 ELSE -1
    IN  bresenham_loop(a[1], a[2], b[1], b[2], dx, sx, dy, sy, dx + dy)

line_of_sight(a, b, blocked_set) ==
    LET cells == bresenham_line_cells(a, b)
    IN  \A k \in 1..Len(cells) : cells[k] \notin blocked_set

\* mutant: the last cell of the path is taken without looking at the line to it
farthest_visible_unchecked(path, i, j, blocked_set) == j

\* mutant: the next cell of the path is kept, whatever is visible
farthest_visible_next(path, i, j, blocked_set) == i + 1

\* the farthest index j > i + 1 with line of sight from path[i], else i + 1
RECURSIVE farthest_visible(_, _, _, _)
farthest_visible(path, i, j, blocked_set) ==
    IF j > i + 1 /\ ~line_of_sight(path[i], path[j], blocked_set)
    THEN farthest_visible(path, i, j - 1, blocked_set)
    ELSE j

RECURSIVE smooth_loop(_, _, _, _)
smooth_loop(path, i, smoothed, blocked_set) ==
    IF i < Len(path)
    THEN LET j == farthest_visible(path, i, Len(path), blocked_set)
         IN  smooth_loop(path, j, Append(smoothed, path[j]), blocked_set)
    ELSE smoothed

smooth_path(path, blocked_set) ==
    IF path = << >> THEN path
    ELSE smooth_loop(path, 1, << path[1] >>, blocked_set)

\* mutant: of two entries with the same f_score and g_score the one with the
\* larger cell comes first
EntryLess_larger_cell(a, b) ==
    \/ a[1] < b[1]
    \/ a[1] = b[1] /\ a[2] < b[2]
    \/ a[1] = b[1] /\ a[2] = b[2] /\ a[3][1] > b[3][1]
    \/ a[1] = b[1] /\ a[2] = b[2] /\ a[3][1] = b[3][1] /\ a[3][2] > b[3][2]

\* the order of the open set's entries (f_score, g_score, node): Python's
\* order on tuples, which heapq.heappop takes the least of
EntryLess(a, b) ==
    \/ a[1] < b[1]
    \/ a[1] = b[1] /\ a[2] < b[2]
    \/ a[1] = b[1] /\ a[2] = b[2] /\ a[3][1] < b[3][1]
    \/ a[1] = b[1] /\ a[2] = b[2] /\ a[3][1] = b[3][1] /\ a[3][2] < b[3][2]

heappop(open_set) == CHOOSE e \in open_set : \A o \in open_set \ {e} : EntryLess(e, o)

\* mutant: a diagonal move costs more than two cardinal moves
edge_cost_costly_diagonal(current, neighbor) ==
    IF Abs(neighbor[1] - current[1]) + Abs(neighbor[2] - current[2]) = 2
    THEN 3 * CostScale ELSE CostScale

edge_cost(current, neighbor) ==
    IF Abs(neighbor[1] - current[1]) + Abs(neighbor[2] - current[2]) = 2
    THEN SQRT2 ELSE CostScale

\* mutant: a blocked neighbour is put on the open set like a free one
explore_through_blocked(st, current, g_current, neighbor, goal, blocked_set) ==
    IF neighbor \in st.closed_set THEN st
    ELSE LET tentative_g == g_current + edge_cost(current, neighbor)
         IN  IF neighbor \notin DOMAIN st.g_score \/ tentative_g < st.g_score[neighbor]
             THEN [st EXCEPT
                      !.g_score = Put(@, neighbor, tentative_g),
                      !.open_set = @ \cup {<<tentative_g + euclidean_distance(neighbor, goal),
                                            tentative_g, neighbor>>},
                      !.pushed = Append(@, <<tentative_g + euclidean_distance(neighbor, goal),
                                             tentative_g, neighbor>>),
                      !.came_from = Put(@, neighbor, current)]
             ELSE st

\* the body of astar's loop over the neighbours of current, for one neighbour
explore(st, current, g_current, neighbor, goal, blocked_set) ==
    IF neighbor \in st.closed_set THEN st
    ELSE IF neighbor \in blocked_set THEN st
    ELSE LET tentative_g == g_current + edge_cost(current, neighbor)
         IN  IF neighbor \notin DOMAIN st.g_score \/ tentative_g < st.g_score[neighbor]
             THEN [st EXCEPT
                      !.g_score = Put(@, neighbor, tentative_g),
                      !.open_set = @ \cup {<<tentative_g + euclidean_distance(neighbor, goal),
                                            tentative_g, neighbor>>},
                      !.pushed = Append(@, <<tentative_g + euclidean_distance(neighbor, goal),
                                             tentative_g, neighbor>>),
                      !.came_from = Put(@, neighbor, current)]
             ELSE st

RECURSIVE explore_neighbors(_, _, _, _, _, _, _)
explore_neighbors(st, current, g_current, neighbors, k, goal, blocked_set) ==
    IF k > Len(neighbors) THEN st
    ELSE explore_neighbors(explore(st, current, g_current, neighbors[k], goal, blocked_set),
                           current, g_current, neighbors, k + 1, goal, blocked_set)

\* the cells from current back to the first one without a predecessor
RECURSIVE walk_back(_, _)
walk_back(came_from, current) ==
    IF current \in DOMAIN came_from
    THEN << current >> \o walk_back(came_from, came_from[current])
    ELSE << >>

Reverse(s) == [k \in 1..Len(s) |-> s[Len(s) + 1 - k]]

\* mutant: the start cell is not appended to the cells walked back
reconstruct_path_without_start(came_from, current, start) ==
    Reverse(walk_back(came_from, current))

reconstruct_path(came_from, current, start) ==
    Reverse(walk_back(came_from, current) \o << start >>)

\* one pass of astar's while loop in which the entry popped is not the goal:
\* the search state after it
astar_pass(st, entry, goal, blocked_set, grid_size) ==
    LET g_current == entry[2]
        current == entry[3]
        popped == [st EXCEPT !.open_set = @ \ {entry}]
    IN  IF current \in st.closed_set THEN popped
        ELSE explore_neighbors([popped EXCEPT !.closed_set = @ \cup {current}],
                               current, g_current,
                               get_neighbors(current, grid_size), 1,
                               goal, blocked_set)

RECURSIVE astar_loop(_, _, _, _, _)
astar_loop(st, start, goal, blocked_set, grid_size) ==
    IF st.open_set = {} THEN None
    ELSE LET entry == heappop(st.open_set)
         IN  IF entry[3] = goal THEN reconstruct_path(st.came_from, entry[3], start)
             ELSE astar_loop(astar_pass(st, entry, goal, blocked_set, grid_size),
                             start, goal, blocked_set, grid_size)

\* astar's start, and its goal: the cell, or when it is blocked what
\* nearest_free_cell makes of it
shifted(cell, blocked_set, grid_size) ==
    IF cell \in blocked_set
    THEN nearest_free_cell(cell, blocked_set, grid_size, max_radius)
    ELSE cell

\* astar's open_set, closed_set, g_score and came_from before its loop;
\* pushed lists the entries of the open set in the order of their insertion
search_state(start) ==
    [open_set |-> {<<0, 0, start>>},
     pushed |-> << <<0, 0, start>> >>,
     closed_set |-> {},
     g_score |-> [o \in {start} |-> 0],
     came_from |-> << >>]

\* origin and target are cells; the result is a non-empty sequence of cells,
\* or None
astar(origin, target, blocked_set, grid_size) ==
    LET start == shifted(origin, blocked_set, grid_size)
        goal == shifted(target, blocked_set, grid_size)
    IN  astar_loop(search_state(start), start, goal, blocked_set, grid_size)

Has(d, key) == key \in DOMAIN d

\* the jammers that have x, y and radius, with the radius in planar units
jammer_dicts(jammers, scale_factor) ==
    LET usable == SelectSeq(jammers,
                            LAMBDA j : Has(j, "x") /\ Has(j, "y") /\ Has(j, "radius"))
    IN  [k \in 1..Len(usable) |->
            [center |-> <<usable[k].x, usable[k].y>>,
             radius |-> TDiv(usable[k].radius * QU * scale_factor[1], scale_factor[2])]]

grid_bounds(origin_pos, target_pos, jammer_list) ==
    LET js == 1..Len(jammer_list)
        all_x == {origin_pos[1], target_pos[1]}
                 \cup { jammer_list[k].center[1] - jammer_list[k].radius : k \in js }
                 \cup { jammer_list[k].center[1] + jammer_list[k].radius : k \in js }
        all_y == {origin_pos[2], target_pos[2]}
                 \cup { jammer_list[k].center[2] - jammer_list[k].radius : k \in js }
                 \cup { jammer_list[k].center[2] + jammer_list[k].radius : k \in js }
    IN  [x_min |-> (FloorDiv(SetMin(all_x), QU) - grid_padding) * GRID_SCALE,
         x_max |-> (CeilDiv(SetMax(all_x), QU) + grid_padding) * GRID_SCALE,
         y_min |-> (FloorDiv(SetMin(all_y), QU) - grid_padding) * GRID_SCALE,
         y_max |-> (CeilDiv(SetMax(all_y), QU) + grid_padding) * GRID_SCALE]

\* mutant: the ranges of the disc's cells are not cut to the grid
jammer_cells_unclipped(j, grid_size) ==
    LET cx == j.center[1] * GRID_SCALE
        cy == j.center[2] * GRID_SCALE
        r == j.radius * GRID_SCALE
        xmin == FloorDiv(cx - r, QU)
        xmax == CeilDiv(cx + r, QU)
        ymin == FloorDiv(cy - r, QU)
        ymax == CeilDiv(cy + r, QU)
    IN  { c \in (xmin..xmax) \X (ymin..ymax) :
            /\ r >= 0
            /\ (QU * c[1] - cx) * (QU * c[1] - cx) + (QU * c[2] - cy) * (QU * c[2] - cy)
                   <= r * r }

\* the cells of one jammer's disc, centre and radius scaled to the grid (in
\* quarters of a cell)
jammer_cells(j, grid_size) ==
    LET cx == j.center[1] * GRID_SCALE
        cy == j.center[2] * GRID_SCALE
        r == j.radius * GRID_SCALE
        xmin == FloorDiv(cx - r, QU)
        xmax == CeilDiv(cx + r, QU)
        ymin == FloorDiv(cy - r, QU)
        ymax == CeilDiv(cy + r, QU)
    IN  { c \in (Max(xmin, grid_size.x_min)..Min(xmax, grid_size.x_max))
                \X (Max(ymin, grid_size.y_min)..Min(ymax, grid_size.y_max)) :
            /\ r >= 0
            /\ (QU * c[1] - cx) * (QU * c[1] - cx) + (QU * c[2] - cy) * (QU * c[2] - cy)
                   <= r * r }

rasterize(jammer_list, grid_size) ==
    UNION { jammer_cells(jammer_list[k], grid_size) : k \in 1..Len(jammer_list) }

\* round(pos * GRID_SCALE) of a planar coordinate
grid_cell(pos) ==
    <<RoundHalfEven(pos[1] * GRID_SCALE, QU), RoundHalfEven(pos[2] * GRID_SCALE, QU)>>

\* the waypoints of a path, the first and the last set to the exact origin
\* and target unless the endpoint's cell is blocked
path_waypoints(path, origin_pos, target_pos, blocked_set) ==
    LET waypoints == [k \in 1..Len(path) |->
                         [x |-> TDiv(path[k][1] * QU, GRID_SCALE),
                          y |-> TDiv(path[k][2] * QU, GRID_SCALE),
                          alt |-> default_alt]]
        first == IF grid_cell(origin_pos) \notin blocked_set
                 THEN [waypoints EXCEPT ![1].x = origin_pos[1], ![1].y = origin_pos[2]]
                 ELSE waypoints
        n == Len(path)
    IN  IF grid_cell(target_pos) \notin blocked_set
        THEN [first EXCEPT ![n].x = target_pos[1], ![n].y = target_pos[2]]
        ELSE first

\* returns the empty list, or the pair <<waypoints, scale_factor>>
plan_astar_path(origin, target, jammers) ==
    IF ~Has(origin, "x") \/ ~Has(origin, "y") \/ ~Has(target, "x") \/ ~Has(target, "y")
    THEN << >>
    ELSE LET origin_pos == <<origin.x, origin.y>>
             target_pos == <<target.x, target.y>>
             scale_factor == fallback_scale_factor
             jammer_list == jammer_dicts(jammers, scale_factor)
             grid_size == grid_bounds(origin_pos, target_pos, jammer_list)
             blocked_set == rasterize(jammer_list, grid_size)
             path == astar(grid_cell(origin_pos), grid_cell(target_pos),
                           blocked_set, grid_size)
         IN  IF path = << >> THEN << >>
             ELSE <<path_waypoints(smooth_path(path, blocked_set),
                                   origin_pos, target_pos, blocked_set),
                    scale_factor>>

\* the sum of the Euclidean lengths of the waypoint-to-waypoint segments,
\* rounded to two decimals
RECURSIVE segment_sum(_, _)
segment_sum(waypoints, k) ==
    IF k >= Len(waypoints) THEN 0
    ELSE ISqrt(((waypoints[k].x - waypoints[k + 1].x) * (waypoints[k].x - waypoints[k + 1].x)
                + (waypoints[k].y - waypoints[k + 1].y) * (waypoints[k].y - waypoints[k + 1].y))
               * CostScale * CostScale)
         + segment_sum(waypoints, k + 1)

path_length(waypoints) ==
    RoundHalfEven(segment_sum(waypoints, 1) * CENTI, QU * CostScale)

Reply(status, body) == [status |-> status, body |-> body]

\* the tuple assignment "waypoints, scale_factor = value"
UnpackError(value) ==
    IF Len(value) < 2
    THEN "not enough values to unpack (expected 2, got " \o ToString(Len(value)) \o ")"
    ELSE "too many values to unpack (expected 2)"

trajectory(origin, target, i, waypoints) ==
    [origin_id |-> Get(origin, "id", "origin-" \o ToString(i - 1)),
     target_id |-> Get(target, "id", "target-" \o ToString(i - 1)),
     waypoints |-> waypoints,
     stats |-> [total_waypoints |-> Len(waypoints),
                path_length |-> path_length(waypoints),
                steps_in_jammer |-> 0]]

\* mutant: every origin is paired with the first target
RECURSIVE pair_loop_first_target(_, _, _, _, _)
pair_loop_first_target(origins, targets, jammers, i, lp) ==
    IF i > Len(origins) \/ lp.raised # None THEN lp
    ELSE LET value == plan_astar_path(origins[i], targets[1], jammers)
         IN  IF Len(value) # 2
             THEN [lp EXCEPT !.raised = Some(UnpackError(value))]
             ELSE pair_loop_first_target(origins, targets, jammers, i + 1,
                      [lp EXCEPT
                          !.scale_factor = Some(value[2]),
                          !.trajectories =
                              IF value[1] = << >> THEN @
                              ELSE Append(@, trajectory(origins[i], targets[1], i, value[1]))])

\* plan_mission's loop over the origins, from the i-th on; lp holds the
\* loop's variables and the exception raised, if any
RECURSIVE pair_loop(_, _, _, _, _)
pair_loop(origins, targets, jammers, i, lp) ==
    IF i > Len(origins) \/ lp.raised # None THEN lp
    ELSE IF i > Len(targets) THEN pair_loop(origins, targets, jammers, i + 1, lp)
    ELSE LET value == plan_astar_path(origins[i], targets[i], jammers)
         IN  IF Len(value) # 2
             THEN [lp EXCEPT !.raised = Some(UnpackError(value))]
             ELSE IF value[1] = << >>
             THEN pair_loop(origins, targets, jammers, i + 1,
                            [lp EXCEPT !.scale_factor = Some(value[2])])
             ELSE pair_loop(origins, targets, jammers, i + 1,
                            [lp EXCEPT
                                !.scale_factor = Some(value[2]),
                                !.trajectories =
                                    Append(@, trajectory(origins[i], targets[i], i, value[1]))])

plan_mission(data) ==
    LET origins == Get(data, "origins", << >>)
        targets == Get(data, "targets", << >>)
        jammers == Get(data, "jammers", << >>)
    IN  IF origins = << >> THEN Reply(400, [error |-> "No origins provided"])
        ELSE IF targets = << >> THEN Reply(400, [error |-> "No targets provided"])
        ELSE LET lp == pair_loop(origins, targets, jammers, 1,
                                 [trajectories |-> << >>, scale_factor |-> None,
                                  raised |-> None])
             IN  IF lp.raised # None THEN Reply(500, [error |-> lp.raised[1]])
                 ELSE IF lp.scale_factor = None
                 THEN Reply(500, [error |-> "local variable 'scale_factor' referenced before assignment"])
                 ELSE Reply(200,
                            [trajectories |-> lp.trajectories,
                             num_trajectories |-> Len(lp.trajectories),
                             jammers_considered |-> Len(jammers),
                             algorithm |-> "A* pathfinding",
                             scale_factor |-> lp.scale_factor[1],
                             meters_per_coord |->
                                 IF lp.scale_factor[1][1] # 0
                                 THEN Some(<<lp.scale_factor[1][2], lp.scale_factor[1][1]>>)
                                 ELSE None])

---------------------------------------------------------------------------
(* The requests a client POSTs to /plan, and the planner service *)

\* most origins, and most targets, in one request
MaxEndpoints == 2

\* ORIGIN-1 is enclosed by the jammers of JammerRing; the last origin has no
\* id, lies off the grid's cell centres and is inside a jammer
OriginPool ==
    << [id |-> "ORIGIN-1", x |-> 0, y |-> 0],
       [id |-> "ORIGIN-2", x |-> 5 * QU, y |-> QU],
       [id |-> "ORIGIN-3"],
       [x |-> 2 * QU + 1, y |-> 0] >>

\* TARGET-4 lies in the cell of ORIGIN-2, a quarter of a unit from it
TargetPool ==
    << [id |-> "TARGET-1", x |-> 6 * QU, y |-> 0],
       [id |-> "TARGET-2", y |-> 0],
       [x |-> 5 * QU + 1, y |-> 3 * QU],
       [id |-> "TARGET-4", x |-> 5 * QU + 1, y |-> QU] >>

JammerRing ==
    << [x |-> 2 * QU, y |-> 0, radius |-> 15000],
       [x |-> -2 * QU, y |-> 0, radius |-> 15000],
       [x |-> 0, y |-> 2 * QU, radius |-> 15000],
       [x |-> 0, y |-> -2 * QU, radius |-> 15000] >>

JammerWall ==
    << [x |-> 3 * QU, y |-> 0, radius |-> 10000],
       [x |-> 3 * QU, y |-> QU] >>

JammerPool == << << >>, JammerRing, JammerWall >>

\* the sequences of at most MaxEndpoints indices into a pool of n entries
IndexSeqs(n) == UNION { [1..k -> 1..n] : k \in 0..MaxEndpoints }

Pick(pool, idx) == [k \in 1..Len(idx) |-> pool[idx[k]]]

\* the request body with the given lists, without the keys in dropped
RequestBody(origins, targets, jammers, dropped) ==
    [key \in {"origins", "targets", "jammers"} \ dropped |->
        CASE key = "origins" -> origins
          [] key = "targets" -> targets
          [] OTHER -> jammers]

EmptyKeys(data) == { key \in DOMAIN data : data[key] = << >> }

\* GET /health
Health ==
    /\ plan_request = None
    /\ plan_request' = Some([route |-> "/health"])
    /\ plan_reply' = Some(Reply(200, [status |-> "healthy", service |-> "pathplanner"]))
    /\ UNCHANGED <<uav, response, nticks, grid_run, server_vars>>

\* POST /plan with the request body data: the handler runs to its return
PlanMission(data) ==
    /\ plan_request = None
    /\ plan_request' = Some([route |-> "/plan", json |-> data])
    /\ plan_reply' = Some(plan_mission(data))
    /\ UNCHANGED <<uav, response, nticks, grid_run, server_vars>>

Plan ==
    \E oi \in IndexSeqs(Len(OriginPool)), ti \in IndexSeqs(Len(TargetPool)),
       ji \in 1..Len(JammerPool) :
        LET origins == Pick(OriginPool, oi)
            targets == Pick(TargetPool, ti)
            jammers == JammerPool[ji]
        IN  \E dropped \in SUBSET EmptyKeys(RequestBody(origins, targets, jammers, {})) :
                PlanMission(RequestBody(origins, targets, jammers, dropped))

\* the reply is sent and the request is over
Respond ==
    /\ plan_request # None
    /\ plan_request' = None
    /\ plan_reply' = None
    /\ UNCHANGED <<uav, response, nticks, grid_run, server_vars>>

PlanNext == Health \/ Plan \/ Respond

PlanSpec == Init /\ [][PlanNext]_vars

---------------------------------------------------------------------------
(* POST /plan with longer lists of well-formed origins and targets: what   *)
(* plan_mission's loop pairs with what.                                     *)

\* most origins, and most targets, in a request of paired endpoints
MaxPaired == 2

\* the origin enclosed by the jammers of JammerRing, and the one without id
PairedOrigins == << OriginPool[1], OriginPool[4] >>

\* a target with an id and one without
PairedTargets == << TargetPool[1], TargetPool[3] >>

PairedJammers == << << >>, JammerRing >>

PairedSeqs == UNION { [1..k -> 1..2] : k \in 0..MaxPaired }

PlanPaired ==
    \E oi \in PairedSeqs, ti \in PairedSeqs, ji \in 1..Len(PairedJammers) :
        LET origins == Pick(PairedOrigins, oi)
            targets == Pick(PairedTargets, ti)
            jammers == PairedJammers[ji]
        IN  \E dropped \in SUBSET EmptyKeys(RequestBody(origins, targets, jammers, {})) :
                PlanMission(RequestBody(origins, targets, jammers, dropped))

PairingNext == PlanPaired \/ Respond

PairingSpec == Init /\ [][PairingNext]_vars

---------------------------------------------------------------------------
(* The planner's grid search on small grids: astar and, on the path it      *)
(* returns, smooth_path, as plan_astar_path calls them, for every blocked   *)
(* set, start cell and goal cell within the bounds.                         *)

\* the cells of the grid are (0..GridMax) x (0..GridMax)
GridMax == 2
\* most blocked cells in the grid
MaxBlocked == 2
\* most free cells in a grid that is blocked but for a few cells
MaxFree == 2

SmallGrid == [x_min |-> 0, x_max |-> GridMax, y_min |-> 0, y_max |-> GridMax]

GridCells == (0..GridMax) \X (0..GridMax)

\* the blocked sets of at most MaxBlocked cells, and those that leave at most
\* MaxFree cells free
BlockedSets ==
    { b \in SUBSET GridCells : Cardinality(b) <= MaxBlocked }
    \cup { GridCells \ f : f \in { g \in SUBSET GridCells : Cardinality(g) <= MaxFree } }

\* path = astar(origin_grid, target_grid, blocked_set, grid_size)
CallAstar(origin, target, blocked_set) ==
    /\ grid_run = None
    /\ grid_run' = Some([stage |-> "astar",
                         grid_size |-> SmallGrid,
                         blocked_set |-> blocked_set,
                         origin |-> origin,
                         target |-> target,
                         start |-> shifted(origin, blocked_set, SmallGrid),
                         goal |-> shifted(target, blocked_set, SmallGrid),
                         path |-> astar(origin, target, blocked_set, SmallGrid),
                         smoothed |-> None])
    /\ UNCHANGED <<uav, response, nticks, plan_request, plan_reply, server_vars>>

GridSearch ==
    /\ grid_run = None
    /\ \E origin \in GridCells, target \in GridCells, blocked_set \in BlockedSets :
           CallAstar(origin, target, blocked_set)

\* path_smoothed = smooth_path(path, blocked_set), reached when A* found a path
CallSmoothPath ==
    /\ grid_run # None
    /\ grid_run[1].stage = "astar"
    /\ grid_run[1].path # None
    /\ grid_run' = Some([grid_run[1] EXCEPT
                            !.stage = "smooth",
                            !.smoothed = smooth_path(grid_run[1].path,
                                                     grid_run[1].blocked_set)])
    /\ UNCHANGED <<uav, response, nticks, plan_request, plan_reply, server_vars>>

\* plan_astar_path goes on to its return
GridReturn ==
    /\ grid_run # None
    /\ grid_run' = None
    /\ UNCHANGED <<uav, response, nticks, plan_request, plan_reply, server_vars>>

GridNext == GridSearch \/ CallSmoothPath \/ GridReturn

GridSpec == Init /\ [][GridNext]_vars

---------------------------------------------------------------------------
(* The rasterization of the jammers' discs in plan_astar_path, on the small *)
(* grid, for jammers whose discs lie in the grid, across its edge or beside *)
(* it.  Centres and radii are in quarters of a coordinate unit.             *)

\* the largest radius of a jammer, in quarters of a coordinate unit
MaxRadius == 4

\* a coordinate of a jammer's centre: from half a unit before the grid to
\* half a unit after it
CentreCoords == (-2)..(GridMax * (QU \div GRID_SCALE) + 2)

\* the radii, a negative one among them
Radii == (-1)..MaxRadius

Jammers == { [center |-> <<x, y>>, radius |-> r] : x \in CentreCoords,
                                                   y \in CentreCoords,
                                                   r \in Radii }

\* a second jammer: one cell wide, on a corner of the grid
CornerJammers ==
    { [center |-> <<x, x>>, radius |-> QU \div GRID_SCALE] :
         x \in {0, GridMax * (QU \div GRID_SCALE)} }

JammerLists ==
    { << j >> : j \in Jammers } \cup { << j, k >> : j \in Jammers, k \in CornerJammers }

\* blocked_set is built from jammer_list
Rasterize ==
    /\ grid_run = None
    /\ \E jammer_list \in JammerLists :
           grid_run' = Some([stage |-> "raster",
                             grid_size |-> SmallGrid,
                             jammer_list |-> jammer_list,
                             blocked_set |-> rasterize(jammer_list, SmallGrid)])
    /\ UNCHANGED <<uav, response, nticks, plan_request, plan_reply, server_vars>>

\* plan_astar_path goes on with the blocked set
RasterReturn ==
    /\ grid_run # None
    /\ grid_run[1].stage = "raster"
    /\ grid_run' = None
    /\ UNCHANGED <<uav, response, nticks, plan_request, plan_reply, server_vars>>

RasterNext == Rasterize \/ RasterReturn

RasterSpec == Init /\ [][RasterNext]_vars

---------------------------------------------------------------------------
(* astar's while loop, one pass at a time, on the small grid: the open set, *)
(* the closed set, g_score and came_from are the fields of search, and      *)
(* popped is the entry the last pass took from the open set.                *)

\* most blocked cells in a grid searched pass by pass
MaxSearchBlocked == 1

\* a column of the grid blocked from bottom to top
Wall(x) == { c \in GridCells : c[1] = x }

\* the blocked sets of at most MaxSearchBlocked cells, and those with a wall
\* besides
SearchBlockedSets ==
    LET few == { b \in SUBSET GridCells : Cardinality(b) <= MaxSearchBlocked }
    IN  few \cup { Wall(x) \cup b : x \in 0..GridMax, b \in few }

\* astar is called: its endpoints are repaired and its loop is set up
EnterAstar(origin, target, blocked_set) ==
    /\ grid_run = None
    /\ grid_run' = Some([stage |-> "search",
                         grid_size |-> SmallGrid,
                         blocked_set |-> blocked_set,
                         origin |-> origin,
                         target |-> target,
                         start |-> shifted(origin, blocked_set, SmallGrid),
                         goal |-> shifted(target, blocked_set, SmallGrid),
                         search |-> search_state(shifted(origin, blocked_set, SmallGrid)),
                         popped |-> None,
                         path |-> None,
                         smoothed |-> None])
    /\ UNCHANGED <<uav, response, nticks, plan_request, plan_reply, server_vars>>

SearchBegin ==
    /\ grid_run = None
    /\ \E origin \in GridCells, target \in GridCells, blocked_set \in SearchBlockedSets :
           EnterAstar(origin, target, blocked_set)

\* a pass of the loop that pops an entry other than the goal's
SearchPass ==
    /\ grid_run # None
    /\ grid_run[1].stage = "search"
    /\ grid_run[1].search.open_set # {}
    /\ LET run == grid_run[1]
           entry == heappop(run.search.open_set)
       IN  /\ entry[3] # run.goal
           /\ grid_run' = Some([run EXCEPT
                                   !.popped = Some(entry),
                                   !.search = astar_pass(run.search, entry, run.goal,
                                                         run.blocked_set, run.grid_size)])
    /\ UNCHANGED <<uav, response, nticks, plan_request, plan_reply, server_vars>>

\* the pass that pops the goal: astar returns the reconstructed path
SearchFound ==
    /\ grid_run # None
    /\ grid_run[1].stage = "search"
    /\ grid_run[1].search.open_set # {}
    /\ LET run == grid_run[1]
           entry == heappop(run.search.open_set)
       IN  /\ entry[3] = run.goal
           /\ grid_run' = Some([run EXCEPT
                                   !.stage = "found",
                                   !.popped = Some(entry),
                                   !.search.open_set = @ \ {entry},
                                   !.path = reconstruct_path(run.search.came_from,
                                                             entry[3], run.start)])
    /\ UNCHANGED <<uav, response, nticks, plan_request, plan_reply, server_vars>>

\* the open set is empty: the loop ends and astar returns None
SearchDrained ==
    /\ grid_run # None
    /\ grid_run[1].stage = "search"
    /\ grid_run[1].search.open_set = {}
    /\ grid_run' = Some([grid_run[1] EXCEPT !.stage = "drained", !.path = None])
    /\ UNCHANGED <<uav, response, nticks, plan_request, plan_reply, server_vars>>

\* astar's caller takes the result
SearchReturn ==
    /\ grid_run # None
    /\ grid_run[1].stage \in {"found", "drained"}
    /\ grid_run' = None
    /\ UNCHANGED <<uav, response, nticks, plan_request, plan_reply, server_vars>>

SearchNext == SearchBegin \/ SearchPass \/ SearchFound \/ SearchDrained \/ SearchReturn

SearchSpec == Init /\ [][SearchNext]_vars

---------------------------------------------------------------------------
(* SimulatorServer: the connect loop (connect_to_backend), the message     *)
(* consumer (handle_message, send_message) and the physics ticker          *)
(* (physics_loop), two coroutines on one event loop.  A coroutine runs      *)
(* from one await that suspends it to the next; the steps below are the    *)
(* stretches of code between such awaits, cut once more at the entry and   *)
(* at the return of handle_command and of update_physics.  time.time() and *)
(* last_update enter the code only through their difference, which is the  *)
(* variable since_update, in dt units.  The backend sends no takeoff, so   *)
(* the vehicle stays on the ground.                                        *)

\* most time since last_update, in dt units
MaxElapsed == 30
\* most messages received and not yet consumed
MaxInbox == 1
\* most messages sent and not yet taken by the backend
MaxOutbox == 1
\* most ticks of the server's ticker with dt > 0
MaxServerTicks == 1

\* await asyncio.sleep(3), in dt units
reconnect_delay == 3 * DS
\* the step of the clock, in dt units
ClockStep == 3 * DS

Message(kind, value) == [kind |-> kind, value |-> value]

\* the messages the backend sends: two commands, of which land is refused on
\* the ground; an object that is no command; a JSON array; text that is not
\* JSON
MessagePool ==
    << Message("object", [type |-> "command", command |-> "arm", params |-> NoParams]),
       Message("object", [type |-> "command", command |-> "land", params |-> NoParams]),
       Message("object", [type |-> "ping"]),
       Message("array", << >>),
       Message("invalid", << >>) >>

\* get_state(), without its wall-clock timestamp
get_state(u) ==
    [type |-> "state_update",
     data |-> [position |-> u.position,
               velocity |-> u.velocity,
               orientation |-> u.orientation,
               battery |-> RoundHalfEven(u.battery * CENTI, MPCT),
               status |-> u.status,
               armed |-> u.armed]]

\* mutant: the message is written whatever the state of the websocket
send_message_unchecked(ws, channel, data) == Append(channel, data)

\* send_message: the messages on the channel after the call.  Nothing is
\* sent without a websocket or on a closed one, and a send on a closing one
\* raises ConnectionClosed, which send_message swallows.
send_message(ws, channel, data) ==
    IF ws = "open" THEN Append(channel, data) ELSE channel

\* mutant: the consumer is suspended between the return of handle_command
\* and the send of its response
MainYieldsBeforeSend == main_pc = "handle"

\* the consumer is between its awaits: in handle_message, past the receipt
\* of a command and before the await of its response's send
MainHoldsLoop == main_pc \in {"handle", "respond"}

\* mutant: the ticker keeps the event loop through its sleep
TickerNeverYields == ticker_pc \in {"update", "send_state", "sleep"}

\* mutant: the ticker is suspended inside update_physics
TickerYieldsInUpdate == ticker_pc = "send_state"

\* the ticker is between its awaits: in physics_loop's body, before the
\* await of the state update's send
TickerHoldsLoop == ticker_pc \in {"update", "send_state"}

\* no coroutine is between its awaits: the event loop is free to run the
\* websocket's own reader, which is what queues a received message and what
\* changes the state of the websocket
LoopFree == ~MainHoldsLoop /\ ~TickerHoldsLoop

\* the time the clock may still advance by, Backoff steps to come included
TimeLeft ==
    MaxElapsed - since_update
        - (IF main_pc = "backoff" THEN reconnect_delay ELSE 0)
        - reconnect_delay * Cardinality({ k \in 1..Len(inbox) : inbox[k].kind = "array" })

\* async with websockets.connect(...) succeeds: the ticker task is created
ConnectOk ==
    /\ main_pc = "connect"
    /\ ~TickerHoldsLoop
    /\ main_pc' = "receive"
    /\ websocket' = "open"
    /\ running' = TRUE
    /\ ticker_pc' = "started"
    /\ inbox' = << >>
    /\ connect_gap' = since_update
    /\ UNCHANGED <<uav, response, nticks, planner_vars, outbox, handled, tick_dt,
                   since_update, response_sent>>

\* websockets.connect raises: except Exception, then the delay
ConnectFail ==
    /\ main_pc = "connect"
    /\ ~TickerHoldsLoop
    /\ reconnect_delay <= TimeLeft
    /\ main_pc' = "backoff"
    /\ UNCHANGED <<uav, response, nticks, planner_vars, websocket, running,
                   ticker_pc, inbox, outbox, handled, tick_dt, since_update,
                   connect_gap, response_sent>>

\* await asyncio.sleep(3) returns; back to the top of the while True loop
Backoff ==
    /\ main_pc = "backoff"
    /\ ~TickerHoldsLoop
    /\ main_pc' = "connect"
    /\ since_update' = since_update + reconnect_delay
    /\ UNCHANGED <<uav, response, nticks, planner_vars, websocket, running,
                   ticker_pc, inbox, outbox, handled, tick_dt, connect_gap,
                   response_sent>>

\* mutant: the finally clause leaves the ticker as it is
StopTicker_no_cancel(pc) == pc

\* the finally clause: self.running = False, physics_task.cancel().  The
\* ticker is suspended at an await, where CancelledError is raised in it: no
\* except clause of physics_loop or send_message catches it (it is no
\* Exception), so the ticker gets no further step.
StopTicker(pc) == IF pc = "none" THEN "none" ELSE "cancelled"

\* async for takes the next message and handle_message runs up to the call
\* of handle_command, or to its end for a message that is no command
Receive ==
    /\ main_pc = "receive"
    /\ ~TickerHoldsLoop
    /\ inbox # << >>
    /\ LET msg == Head(inbox)
       IN  CASE msg.kind = "invalid" ->
                  \* json.JSONDecodeError is caught in handle_message
                  /\ inbox' = Tail(inbox)
                  /\ UNCHANGED <<main_pc, handled, websocket, running, ticker_pc>>
             [] msg.kind = "array" ->
                  \* data.get raises AttributeError, which leaves handle_message
                  \* and the async for: finally, then except Exception
                  /\ inbox' = << >>
                  /\ main_pc' = "backoff"
                  /\ websocket' = "closed"
                  /\ running' = FALSE
                  /\ ticker_pc' = StopTicker(ticker_pc)
                  /\ UNCHANGED handled
             [] msg.kind = "object" /\ Get(msg.value, "type", "") # "command" ->
                  /\ inbox' = Tail(inbox)
                  /\ UNCHANGED <<main_pc, handled, websocket, running, ticker_pc>>
             [] OTHER ->
                  /\ inbox' = Tail(inbox)
                  /\ main_pc' = "handle"
                  /\ handled' = Some(msg.value)
                  /\ UNCHANGED <<websocket, running, ticker_pc>>
    /\ UNCHANGED <<uav, response, nticks, planner_vars, outbox, tick_dt,
                   since_update, connect_gap, response_sent>>

\* response = self.uav.handle_command(data)
MainHandle ==
    /\ main_pc = "handle"
    /\ uav' = handle_command(uav, handled[1]).uav
    /\ response' = handle_command(uav, handled[1]).response
    /\ response_sent' = FALSE
    /\ main_pc' = "respond"
    /\ UNCHANGED <<nticks, planner_vars, websocket, running, ticker_pc, inbox,
                   outbox, handled, tick_dt, since_update, connect_gap>>

\* await self.send_message(response)
SendResponse ==
    /\ main_pc = "respond"
    /\ websocket = "open" => Len(outbox) < MaxOutbox
    /\ outbox' = send_message(websocket, outbox, response)
    /\ response_sent' = (outbox' # outbox)
    /\ main_pc' = "receive"
    /\ handled' = None
    /\ UNCHANGED <<uav, response, nticks, planner_vars, websocket, running,
                   ticker_pc, inbox, tick_dt, since_update, connect_gap>>

\* the async for ends, cleanly or with ConnectionClosed: finally, and on to
\* the top of the while True loop
CloseSeen ==
    /\ main_pc = "receive"
    /\ ~TickerHoldsLoop
    /\ inbox = << >>
    /\ websocket = "closed"
    /\ running' = FALSE
    /\ ticker_pc' = StopTicker(ticker_pc)
    /\ main_pc' = "connect"
    /\ UNCHANGED <<uav, response, nticks, planner_vars, websocket, inbox,
                   outbox, handled, tick_dt, since_update, connect_gap,
                   response_sent>>

\* physics_loop from "while self.running" to the call of update_physics
TickerBegin ==
    /\ ticker_pc \in {"started", "sleep"}
    /\ ~MainHoldsLoop
    /\ since_update > 0 => nticks < MaxServerTicks
    /\ IF running
       THEN /\ tick_dt' = since_update
            /\ since_update' = 0
            /\ ticker_pc' = "update"
       ELSE /\ ticker_pc' = "done"
            /\ UNCHANGED <<tick_dt, since_update>>
    /\ UNCHANGED <<uav, response, nticks, planner_vars, main_pc, websocket,
                   running, inbox, outbox, handled, connect_gap, response_sent>>

\* self.uav.update_physics(dt)
TickerUpdate ==
    /\ ticker_pc = "update"
    /\ uav' = update_physics(uav, tick_dt)
    /\ nticks' = IF tick_dt > 0 THEN nticks + 1 ELSE nticks
    /\ ticker_pc' = "send_state"
    /\ UNCHANGED <<response, planner_vars, main_pc, websocket, running, inbox,
                   outbox, handled, tick_dt, since_update, connect_gap, response_sent>>

\* state = self.uav.get_state(); await self.send_message(state); and on to
\* await asyncio.sleep(0.05)
TickerSend ==
    /\ ticker_pc = "send_state"
    /\ websocket = "open" => Len(outbox) < MaxOutbox
    /\ outbox' = send_message(websocket, outbox, get_state(uav))
    /\ ticker_pc' = "sleep"
    /\ UNCHANGED <<uav, response, nticks, planner_vars, main_pc, websocket,
                   running, inbox, handled, tick_dt, since_update, connect_gap,
                   response_sent>>

\* the backend sends a message
Deliver(msg) ==
    /\ LoopFree
    /\ websocket = "open"
    /\ Len(inbox) < MaxInbox
    /\ msg.kind = "array" => reconnect_delay <= TimeLeft
    /\ inbox' = Append(inbox, msg)
    /\ UNCHANGED <<uav, response, nticks, planner_vars, main_pc, ticker_pc,
                   websocket, running, outbox, handled, tick_dt, since_update,
                   connect_gap, response_sent>>

\* the backend takes the oldest message sent to it
BackendTakes ==
    /\ outbox # << >>
    /\ outbox' = Tail(outbox)
    /\ UNCHANGED <<uav, response, nticks, planner_vars, main_pc, ticker_pc,
                   websocket, running, inbox, handled, tick_dt, since_update,
                   connect_gap, response_sent>>

\* the closing handshake starts: the websocket is not yet closed, and a send
\* on it raises
PeerClose ==
    /\ LoopFree
    /\ websocket = "open"
    /\ websocket' = "closing"
    /\ UNCHANGED <<uav, response, nticks, planner_vars, main_pc, ticker_pc,
                   running, inbox, outbox, handled, tick_dt, since_update,
                   connect_gap, response_sent>>

\* the connection is closed, after a handshake or without one
ConnectionLost ==
    /\ LoopFree
    /\ websocket \in {"open", "closing"}
    /\ websocket' = "closed"
    /\ UNCHANGED <<uav, response, nticks, planner_vars, main_pc, ticker_pc,
                   running, inbox, outbox, handled, tick_dt, since_update,
                   connect_gap, response_sent>>

\* time passes
Advance ==
    /\ ClockStep <= TimeLeft
    /\ since_update' = since_update + ClockStep
    /\ UNCHANGED <<uav, response, nticks, planner_vars, main_pc, ticker_pc,
                   websocket, running, inbox, outbox, handled, tick_dt,
                   connect_gap, response_sent>>

Backend == \E k \in 1..Len(MessagePool) : Deliver(MessagePool[k])

ServerNext ==
    \/ ConnectOk \/ ConnectFail \/ Backoff
    \/ Receive \/ MainHandle \/ SendResponse \/ CloseSeen
    \/ TickerBegin \/ TickerUpdate \/ TickerSend
    \/ Backend \/ BackendTakes \/ PeerClose \/ ConnectionLost \/ Advance

ServerSpec == Init /\ [][ServerNext]_vars

\* the steps of connect_to_backend and of handle_message
MainStep ==
    Backoff \/ Receive \/ MainHandle \/ SendResponse \/ CloseSeen

\* the steps of physics_loop between its awaits
TickerStep == TickerUpdate \/ TickerSend

\* the server with a clock that moves in the connect loop's delay alone
ReconnectNext ==
    \/ ConnectOk \/ ConnectFail \/ Backoff
    \/ Receive \/ MainHandle \/ SendResponse \/ CloseSeen
    \/ TickerBegin \/ TickerUpdate \/ TickerSend
    \/ Backend \/ BackendTakes \/ PeerClose \/ ConnectionLost

\* The event loop runs every coroutine that is ready, in turn: the consumer,
\* ready again and again between the ticker's iterations, gets its step, and
\* the ticker runs on to its next await.  The backend takes what is sent to
\* it.
ReconnectSpec ==
    /\ Init /\ [][ReconnectNext]_vars
    /\ SF_vars(MainStep)
    /\ WF_vars(TickerStep)
    /\ WF_vars(BackendTakes)

---------------------------------------------------------------------------
(* Properties of the simulator *)

Target(u) == u.target_position[1]
HasTarget(u) == Len(u.target_position) > 0

\* the precondition column of the command table (spec section 4.7)
Precondition(u, c) ==
    CASE c.command = "arm" -> ~u.armed /\ u.position.z < MM \div 10
      [] c.command = "disarm" -> u.armed /\ u.position.z < MM \div 10
      [] c.command = "takeoff" -> u.armed /\ u.status = "armed"
      [] c.command \in {"land", "move", "rotate", "goto"} -> u.status = "flying"
      [] OTHER -> FALSE

\* C4: in every reachable state, status = idle exactly when armed is false,
\* and armed implies status is one of armed, flying, landing.
StatusArmedInv ==
    /\ uav.status = "idle" <=> ~uav.armed
    /\ uav.armed => uav.status \in {"armed", "flying", "landing"}

\* a disarm accepted after the vehicle has flown
C4Witness ==
    /\ uav.status = "idle" /\ ~uav.armed
    /\ response.command = "disarm" /\ response.success
    /\ uav.battery = BatteryFull - battery_drain_flying * DtTick

\* C5: a command that is unknown, or whose precondition does not hold, is
\* answered with success = false and leaves every field of the UAV unchanged.
FailedCommandNoChange ==
    [][\A i \in 1..Len(CommandList) :
          (HandleCommand(CommandList[i]) /\ ~Precondition(uav, CommandList[i]))
              => (response'.success = FALSE /\ uav' = uav)]_vars

\* a move refused while the vehicle is landing in the air
C5Witness ==
    /\ response.command = "move" /\ ~response.success
    /\ uav.status = "landing" /\ uav.position.z > 0

\* C29: a physics tick taken while the status is idle or armed changes the
\* battery only: position, velocity, orientation, status, armed and target
\* stay as they are, whatever velocity or target an earlier flight left.
GroundedTickChangesOnlyBattery ==
    [][\A dt \in DtSet :
          (Tick(dt) /\ uav.status \in {"idle", "armed"})
              => /\ uav'.position = uav.position
                 /\ uav'.velocity = uav.velocity
                 /\ uav'.orientation = uav.orientation
                 /\ uav'.status = uav.status
                 /\ uav'.armed = uav.armed
                 /\ uav'.target_position = uav.target_position
                 /\ uav'.battery = Max(0, uav.battery - battery_drain_idle * dt)]_vars

\* the vehicle was disarmed just after takeoff, with the velocity and the
\* target of the climb, and the battery has been drained by one tick in
\* flight and one on the ground
C29Witness ==
    /\ uav.status = "idle"
    /\ uav.velocity # ZeroVec
    /\ uav.target_position # None
    /\ nticks = 2
    /\ uav.battery = BatteryFull - battery_drain_flying * DtTick - battery_drain_idle * DtTick

\* C6 (as claimed): an accepted move sets target.z = position.z + max(0, dz).
MoveTargetAsClaimed ==
    [][\A i \in 1..Len(CommandList) :
          LET c == CommandList[i]
              dx == Get(c.params, "dx", 0)
              dy == Get(c.params, "dy", 0)
              dz == Get(c.params, "dz", 0)
          IN  (c.command = "move" /\ uav.status = "flying" /\ HandleCommand(c))
                  => uav'.target_position =
                         Some(Vec(uav.position.x + dx, uav.position.y + dy,
                                  uav.position.z + Max(0, dz)))]_vars

\* C6 (amended): an accepted move sets the target to
\* (x + dx, y + dy, max(0, z + dz)): the sum is clamped, not dz.
MoveTargetClamped ==
    [][\A i \in 1..Len(CommandList) :
          LET c == CommandList[i]
              dx == Get(c.params, "dx", 0)
              dy == Get(c.params, "dy", 0)
              dz == Get(c.params, "dz", 0)
          IN  (c.command = "move" /\ uav.status = "flying" /\ HandleCommand(c))
                  => uav'.target_position =
                         Some(Vec(uav.position.x + dx, uav.position.y + dy,
                                  Max(0, uav.position.z + dz)))]_vars

\* a move by dz = -1 m accepted in flight below 1 m: the target is on the ground
C6Witness ==
    /\ response.command = "move" /\ response.success
    /\ uav.status = "flying" /\ HasTarget(uav)
    /\ uav.position.z > 0 /\ uav.position.z < MM
    /\ Target(uav) = Vec(uav.position.x + MM, uav.position.y, 0)

\* the tick's own conclusion: no tick ends flying with the battery below 10 %
NeverFlyingLowAfterTick ==
    \A dt \in DtSet :
        Tick(dt) => ~(uav'.status = "flying" /\ uav'.battery < BatteryLow)

\* C7 (as claimed): a tick that drains the battery of a flying vehicle below
\* 10 % ends with status = landing and target = (x, y, 0), and no tick ends
\* flying with the battery below 10 %.
LowBatteryLandsAsClaimed ==
    [][/\ \A dt \in DtSet :
             (Tick(dt) /\ uav.status = "flying"
                       /\ battery_drain(uav, dt).battery < BatteryLow)
                 => /\ uav'.status = "landing"
                    /\ uav'.target_position =
                           Some(Vec(uav.position.x, uav.position.y, 0))
       /\ NeverFlyingLowAfterTick]_vars

\* C7 (amended): such a tick sets target = (x, y, 0) and ends with status =
\* landing, or with status = armed, z = 0 and zero velocity when the same
\* tick's integration takes z below 0; no tick ends flying with the battery
\* below 10 %.
LowBatteryLands ==
    [][/\ \A dt \in DtSet :
             (Tick(dt) /\ uav.status = "flying"
                       /\ battery_drain(uav, dt).battery < BatteryLow)
                 => /\ uav'.target_position =
                           Some(Vec(uav.position.x, uav.position.y, 0))
                    /\ IF integrate_position(uav, dt).position.z < 0
                       THEN /\ uav'.status = "armed"
                            /\ uav'.position.z = 0
                            /\ uav'.velocity = ZeroVec
                       ELSE uav'.status = "landing"
       /\ NeverFlyingLowAfterTick]_vars

\* the battery fell below 10 % in flight toward the takeoff target: the
\* vehicle is landing in the air and its target is the ground below
C7Witness ==
    /\ uav.status = "landing" /\ uav.battery < BatteryLow
    /\ response.command = "takeoff" /\ response.success
    /\ uav.position.z > 0
    /\ uav.target_position = Some(Vec(uav.position.x, uav.position.y, 0))

\* C3: after arm, takeoff, the takeoff target reached and an accepted land,
\* fair ticks bring the vehicle to z = 0 with status = armed and zero velocity.
CycleEndsArmedOnGround ==
    (uav.status = "landing" /\ response.command = "land" /\ response.success)
        ~> (uav.status = "armed" /\ uav.position.z = 0 /\ uav.velocity = ZeroVec)

\* C8: the battery never increases and stays within [0, 100].
BatteryMonotone ==
    [][/\ uav'.battery <= uav.battery
       /\ 0 <= uav'.battery /\ uav'.battery <= BatteryFull]_vars

\* two long gaps: the second drain is cut at 0
C8Witness == uav.battery = 0 /\ nticks = 2

\* C9: position.z >= 0 in every state after a tick (and, the initial z being
\* 0 and commands leaving the position alone, in every state).
AltitudeNonNegative == uav.position.z >= 0

\* two ticks in flight toward a takeoff target below the ground: the second
\* integrates a downward velocity from z = 0
C9Witness ==
    /\ uav.status = "flying" /\ HasTarget(uav) /\ Target(uav).z < 0
    /\ uav.position.z = 0
    /\ nticks = 2 /\ uav.battery = BatteryFull - 2 * battery_drain_flying * DtTick

\* C10: status goes from landing to armed only in a tick whose integration
\* takes z below 0, and right after it z = 0 and the velocity is zero.
LandingToArmedOnGround ==
    [][(uav.status = "landing" /\ uav'.status = "armed")
          => /\ uav'.position.z = 0
             /\ uav'.velocity = ZeroVec
             /\ \E dt \in DtSet :
                    Tick(dt) /\ integrate_position(uav, dt).position.z < 0]_vars

\* a landing started by a land command has ended on the ground
C10Witness ==
    /\ uav.status = "armed" /\ uav.position.z = 0 /\ uav.velocity = ZeroVec
    /\ response.command = "land" /\ response.success

\* C11: every change of status or armed made by handle_command is one of the
\* command table: arm (not armed, z < 0.1) gives armed; disarm (armed,
\* z < 0.1) gives idle; takeoff (status armed) gives flying; land (status
\* flying) gives landing; move, rotate, goto and unknown commands change
\* neither.
CommandTransitionsLegal ==
    [][\A i \in 1..Len(CommandList) :
          LET c == CommandList[i]
          IN  (HandleCommand(c) /\ (uav'.status # uav.status \/ uav'.armed # uav.armed))
                  => \/ /\ c.command = "arm"
                        /\ ~uav.armed /\ uav.position.z < MM \div 10
                        /\ uav'.armed /\ uav'.status = "armed"
                     \/ /\ c.command = "disarm"
                        /\ uav.armed /\ uav.position.z < MM \div 10
                        /\ ~uav'.armed /\ uav'.status = "idle"
                     \/ /\ c.command = "takeoff"
                        /\ uav.status = "armed"
                        /\ uav'.armed = uav.armed /\ uav'.status = "flying"
                     \/ /\ c.command = "land"
                        /\ uav.status = "flying"
                        /\ uav'.armed = uav.armed /\ uav'.status = "landing"]_vars

\* a land accepted in flight above the ground, after two ticks of climbing
C11Witness ==
    /\ uav.status = "landing" /\ uav.armed
    /\ response.command = "land" /\ response.success
    /\ uav.position.z > 0 /\ nticks = 2

---------------------------------------------------------------------------
(* Properties of the simulator's server *)

\* C15: whenever the channel closes (the message stream ends, cleanly or with
\* ConnectionClosed), the ticker is cancelled and the connect loop goes to
\* its 3-second delay; no connection attempt follows a channel close without
\* that delay in between.
ReconnectOnlyAfterDelay ==
    [][CloseSeen => /\ ticker_pc' = "cancelled"
                    /\ main_pc' = "backoff"]_vars

\* C16: a fresh connection starts its ticker with last_update = now: the dt
\* that the first tick after a connect passes to update_physics is the time
\* since the connection was made, and none of the time before it.
FirstTickFromConnect ==
    [][(TickerBegin /\ ticker_pc = "started" /\ running)
          => tick_dt' = since_update - connect_gap]_vars

\* the command responses among the messages on the channel
CommandResponses(channel) ==
    SelectSeq(channel, LAMBDA m : m.type = "command_response")

\* C17 (as claimed): every message of type command that the simulator
\* consumes puts exactly one command_response on the channel, never zero and
\* never two, whether the command succeeds or fails.
ExactlyOneResponse ==
    [][IF SendResponse
       THEN /\ response.type = "command_response"
            /\ outbox' = Append(outbox, response)
       ELSE Len(CommandResponses(outbox')) <= Len(CommandResponses(outbox))]_vars

\* C17 (amended): every message of type command that the simulator consumes
\* puts at most one command_response on the channel, never two: exactly one,
\* the response to that command, when the websocket is open at the time of
\* the send, and none when the websocket is closing or closed by then.  No
\* other step puts a command_response on the channel.
OneResponseWhileOpen ==
    [][IF SendResponse
       THEN /\ response.type = "command_response"
            /\ response.command = handled[1].command
            /\ outbox' = IF websocket = "open"
                         THEN Append(outbox, response)
                         ELSE outbox
       ELSE Len(CommandResponses(outbox')) <= Len(CommandResponses(outbox))]_vars

\* a refused land has been handled and its response is on the open channel
C17Witness ==
    /\ main_pc = "receive"
    /\ websocket = "open"
    /\ outbox = << response >>
    /\ response.command = "land"
    /\ ~response.success
    /\ response_sent

\* the ticker's step puts a state_update on the channel
StateUpdateSent == TickerSend /\ outbox' # outbox

\* C18 (as claimed): for every command, its command_response is sent on the
\* channel before any state_update that reflects the command's effect on the
\* UAV state, under every interleaving of the consumer and the ticker.
ResponseBeforeStateUpdate ==
    [][(StateUpdateSent /\ response.success) => response_sent]_vars

\* C18 (amended): under every interleaving of the consumer and the ticker, no
\* state_update is sent between the return of handle_command and the send of
\* its response; so a command_response that is sent precedes every
\* state_update that reflects its command's effect, and such a state_update
\* goes out unpreceded only when the response was dropped on a websocket
\* that was closing or closed.
NoStateUpdateBeforeResponse ==
    [][StateUpdateSent => main_pc # "respond"]_vars

\* an accepted arm has been answered, the backend has taken the response, and
\* the state_update that shows the vehicle armed is on the channel
C18Witness ==
    /\ response.command = "arm"
    /\ response.success
    /\ response_sent
    /\ ticker_pc = "sleep"
    /\ uav.armed
    /\ outbox = << get_state(uav) >>

\* C19: ticks and command handling are serialised: in every interleaving of
\* the ticker and the consumer, no update_physics call and handle_command
\* call overlap; each runs from its entry to its return with no step of the
\* other coroutine in between.
CallsSerialised ==
    ~(ticker_pc = "update" /\ main_pc = "handle")

\* update_physics is about to run while a command waits in the queue, and
\* the consumer stands at its await
C19Witness ==
    /\ ticker_pc = "update"
    /\ main_pc = "receive"
    /\ inbox # << >>
    /\ Head(inbox).kind = "object"
    /\ Get(Head(inbox).value, "type", "") = "command"

\* the connect loop stands at websockets.connect: a connection attempt
ConnectionAttempt == main_pc = "connect"

\* C20: the simulator never terminates because of the channel or of a failed
\* command.  A command with success = false leaves the websocket, the
\* running flag and the ticker as they were; the connect loop is at one of
\* its positions in every state; and, the event loop being fair to the
\* coroutines, a failed connection attempt and a closed channel each lead to
\* another connection attempt.
NeverTerminates ==
    /\ [][((MainHandle \/ SendResponse) /\ ~response'.success)
             => UNCHANGED <<websocket, running, ticker_pc>>]_vars
    /\ [](main_pc \in {"connect", "backoff", "receive", "handle", "respond"})
    /\ (main_pc = "backoff" \/ websocket = "closed") ~> ConnectionAttempt

\* after a failed connection attempt and its delay, a refused land has been
\* answered and the channel is open and the ticker alive
C20Witness ==
    /\ main_pc = "receive"
    /\ websocket = "open"
    /\ running
    /\ ticker_pc = "sleep"
    /\ response.command = "land"
    /\ ~response.success
    /\ response_sent
    /\ connect_gap = reconnect_delay

---------------------------------------------------------------------------
(* Properties of the path planner *)

\* a grid search is in progress and smooth_path has returned
Smoothed == grid_run # None /\ grid_run[1].stage = "smooth"

\* C12: every segment between two consecutive cells of the smoothed path of a
\* path returned by A* has no Bresenham line cell in the blocked set.
SmoothedSegmentsClear ==
    Smoothed =>
        LET smoothed == grid_run[1].smoothed
        IN  \A k \in 1..(Len(smoothed) - 1) :
                LET cells == bresenham_line_cells(smoothed[k], smoothed[k + 1])
                IN  \A n \in 1..Len(cells) : cells[n] \notin grid_run[1].blocked_set

\* the straight line from start to goal crosses a blocked cell, and smoothing
\* has kept a turning point and dropped another cell of the path
C12Witness ==
    /\ Smoothed
    /\ ~line_of_sight(grid_run[1].origin, grid_run[1].target, grid_run[1].blocked_set)
    /\ grid_run[1].origin \notin grid_run[1].blocked_set
    /\ grid_run[1].target \notin grid_run[1].blocked_set
    /\ Len(grid_run[1].smoothed) = 3
    /\ Len(grid_run[1].path) = 4

\* C14: with an empty blocked set and start and goal inside the grid, the path
\* astar returns has exactly max(|di|, |dj|) + 1 cells, (di, dj) being the
\* goal cell minus the start cell.
UnobstructedPathLength ==
    ( /\ grid_run # None
      /\ grid_run[1].blocked_set = {}
      /\ InGrid(grid_run[1].origin, grid_run[1].grid_size)
      /\ InGrid(grid_run[1].target, grid_run[1].grid_size) )
    => Len(grid_run[1].path)
           = Max(Abs(grid_run[1].target[1] - grid_run[1].origin[1]),
                 Abs(grid_run[1].target[2] - grid_run[1].origin[2])) + 1

\* a search across the empty grid that needs a diagonal and a cardinal move
C14Witness ==
    /\ grid_run # None
    /\ grid_run[1].stage = "astar"
    /\ grid_run[1].blocked_set = {}
    /\ grid_run[1].origin = <<0, 0>>
    /\ grid_run[1].target = <<GridMax, 1>>
    /\ Len(grid_run[1].path) = GridMax + 1

\* C30: at most one physics ticker is active: when the ticker of the next
\* connection is started, the ticker of the previous one has been cancelled
\* or has ended, and a ticker cancelled or ended takes no further step, so
\* it calls update_physics and sends a state_update no more.
OneTickerActive ==
    /\ [][ConnectOk => ticker_pc \in {"none", "cancelled", "done"}]_vars
    /\ [][(ticker_pc \in {"cancelled", "done"})
            => (ticker_pc' \in {ticker_pc, "started"} /\ ~TickerUpdate /\ ~TickerSend
                    /\ nticks' = nticks)]_vars

\* the ticker of a connection is started after the ticker of an earlier
\* connection has called update_physics
C30Witness ==
    /\ ticker_pc = "started"
    /\ websocket = "open"
    /\ nticks >= 1

\* a grid search has run
Searched == grid_run # None /\ grid_run[1].stage \in {"astar", "smooth"}

\* C22: when endpoint repair finds no free cell of the grid within its cap
\* and a blocked start or goal is retained, astar returns None, also when
\* start and goal are the same cell.
RetainedBlockedEndpointFails ==
    ( /\ Searched
      /\ \/ grid_run[1].start \in grid_run[1].blocked_set
         \/ grid_run[1].goal \in grid_run[1].blocked_set )
    => grid_run[1].path = None

Chebyshev(a, b) == SetMax({Abs(a[1] - b[1]), Abs(a[2] - b[2])})

\* the free cells of the searched grid within nearest_free_cell's cap of a cell
FreeWithinCap(cell) ==
    { c \in GridCells : /\ c \notin grid_run[1].blocked_set
                        /\ InGrid(c, grid_run[1].grid_size)
                        /\ Chebyshev(c, cell) >= 1
                        /\ Chebyshev(c, cell) <= max_radius }

\* the place of a cell in the order its ring around a centre is visited in:
\* the rows dy = -r and dy = r first, by dx and within a dx the lower row
\* first, then the columns dx = -r and dx = r, by dy and within a dy the left
\* column first
RingRank(c, centre) ==
    LET r == Chebyshev(c, centre)
        dx == c[1] - centre[1]
        dy == c[2] - centre[2]
    IN  IF Abs(dy) = r
        THEN 2 * (dx + r) + (IF dy = r /\ r > 0 THEN 1 ELSE 0)
        ELSE 2 * (2 * r + 1) + 2 * (dy + r - 1) + (IF dx = r THEN 1 ELSE 0)

\* what nearest_free_cell is to return for a cell
NearestFree(cell, found) ==
    IF cell \notin grid_run[1].blocked_set \/ FreeWithinCap(cell) = {}
    THEN found = cell
    ELSE /\ found \in FreeWithinCap(cell)
         /\ \A c \in FreeWithinCap(cell) \ {found} :
                \/ Chebyshev(found, cell) < Chebyshev(c, cell)
                \/ /\ Chebyshev(found, cell) = Chebyshev(c, cell)
                   /\ RingRank(found, cell) < RingRank(c, cell)

\* C23: nearest_free_cell returns a free cell unchanged; for a blocked cell
\* it returns the first free in-bounds cell in ring order, which is free, in
\* bounds and of the smallest Chebyshev distance among the free in-bounds
\* cells within the cap; with no such cell it returns the cell itself.
NearestFreeCellFirstInRingOrder ==
    Searched => /\ NearestFree(grid_run[1].origin, grid_run[1].start)
                /\ NearestFree(grid_run[1].target, grid_run[1].goal)

\* a blocked cell was moved to one of several free cells of the same ring
C23Witness ==
    /\ Searched
    /\ grid_run[1].origin \in grid_run[1].blocked_set
    /\ grid_run[1].start # grid_run[1].origin
    /\ Chebyshev(grid_run[1].start, grid_run[1].origin) = 2
    /\ \E c \in FreeWithinCap(grid_run[1].origin) \ {grid_run[1].start} :
           Chebyshev(c, grid_run[1].origin) = 2

\* astar's loop is running, and astar has returned
Searching == grid_run # None /\ grid_run[1].stage = "search"
AstarReturned == grid_run # None /\ grid_run[1].stage \in {"found", "drained"}

\* the cells next to a cell on the grid that are free
FreeNeighbors(c, run) ==
    { n \in GridCells : /\ Chebyshev(n, c) = 1
                        /\ InGrid(n, run.grid_size)
                        /\ n \notin run.blocked_set }

\* the cells reachable from the cells of seen through free in-bounds cells,
\* each step to one of the eight cells around
RECURSIVE Reachable(_, _)
Reachable(seen, run) ==
    LET more == seen \cup UNION { FreeNeighbors(c, run) : c \in seen }
    IN  IF more = seen THEN seen ELSE Reachable(more, run)

GoalReachable(run) == run.goal \in Reachable({run.start}, run)

\* what is left of the search: the cells not yet closed, each of which can
\* put a neighbour on the open set in every direction, and the entries of
\* the open set
SearchMeasure ==
    (Len(directions) + 1) * Cardinality(GridCells \ grid_run[1].search.closed_set)
    + Cardinality(grid_run[1].search.open_set)

\* C24: with a free start cell astar terminates (every pass of its loop
\* lowers a measure that is a natural number); it returns a path if and
\* only if the goal is reachable from the start through 8-connected free
\* in-bounds cells, and None exactly when the open set drains without the
\* goal being popped.
AstarTerminatesAndDecidesReachability ==
    /\ [][Searching /\ Searching' => SearchMeasure' < SearchMeasure]_vars
    /\ [](Searching => /\ SearchMeasure \in Nat
                       /\ grid_run[1].search.closed_set \subseteq GridCells)
    /\ [](AstarReturned /\ grid_run[1].start \notin grid_run[1].blocked_set
            => /\ grid_run[1].path # None <=> GoalReachable(grid_run[1])
               /\ grid_run[1].path = None
                      <=> /\ grid_run[1].search.open_set = {}
                          /\ grid_run[1].popped[1][3] # grid_run[1].goal)

\* astar has drained the open set of a search from a free start that
\* took several passes
C24Witness ==
    /\ AstarReturned
    /\ grid_run[1].start \notin grid_run[1].blocked_set
    /\ grid_run[1].stage = "drained"
    /\ Cardinality(grid_run[1].search.closed_set) >= 2
    /\ ~GoalReachable(grid_run[1])

\* a pass of astar's loop is about to pop an entry
Popping == Searching /\ grid_run[1].search.open_set # {}

\* the place of an entry in the order of the insertions into the open set
InsertedAt(entry, run) ==
    CHOOSE k \in 1..Len(run.search.pushed) : run.search.pushed[k] = entry

\* the entry popped lies before every other entry of the open set: a smaller
\* f, or the same f and a smaller g, or the same f and g and Earlier
PoppedFirst(Earlier(_, _)) ==
    LET e == grid_run'[1].popped[1]
    IN  /\ e \in grid_run[1].search.open_set
        /\ \A o \in grid_run[1].search.open_set \ {e} :
               \/ e[1] < o[1]
               \/ e[1] = o[1] /\ e[2] < o[2]
               \/ e[1] = o[1] /\ e[2] = o[2] /\ Earlier(e, o)

InsertedEarlier(e, o) == InsertedAt(e, grid_run[1]) < InsertedAt(o, grid_run[1])

SmallerCell(e, o) ==
    \/ e[3][1] < o[3][1]
    \/ e[3][1] = o[3][1] /\ e[3][2] < o[3][2]

\* C25 as stated: A* pops the entry of smallest f = g + h, among entries of
\* equal f the one of smaller g, and among entries of equal f and g the one
\* inserted earliest.
PopsEarliestInsertedOnTies == [][Popping => PoppedFirst(InsertedEarlier)]_vars

\* C25: A* pops the entry of smallest f = g + h, among entries of equal f
\* the one of smaller g, and among entries of equal f and g the one whose
\* cell is the smaller, by x and then by y.
PopsSmallestCellOnTies == [][Popping => PoppedFirst(SmallerCell)]_vars

\* the entry popped was inserted after an entry of the same f and g that is
\* still on the open set
C25Witness ==
    /\ grid_run # None
    /\ grid_run[1].stage \in {"search", "found"}
    /\ grid_run[1].popped # None
    /\ \E o \in grid_run[1].search.open_set :
           /\ o[1] = grid_run[1].popped[1][1]
           /\ o[2] = grid_run[1].popped[1][2]
           /\ InsertedAt(o, grid_run[1]) < InsertedAt(grid_run[1].popped[1], grid_run[1])

\* the index of a cell in a path that holds it once
IndexIn(path, cell) == CHOOSE k \in 1..Len(path) : path[k] = cell

\* the indices after i of the cells of the path with a clear line from path[i]
VisibleFrom(path, i, blocked_set) ==
    { j \in (i + 1)..Len(path) : line_of_sight(path[i], path[j], blocked_set) }

\* C26: smooth_path terminates on a non-empty path p0..pn and returns a
\* subsequence of it with strictly increasing indices, from p0 to pn; the
\* cell kept after p_i is the farthest p_j, j > i, with a clear line of sight
\* from p_i, and p_(i+1) when there is none; with nothing blocked and n >= 1
\* the result is [p0, pn].
SmoothPathKeepsFarthestVisible ==
    Smoothed =>
        LET path == grid_run[1].path
            kept == grid_run[1].smoothed
            blocked_set == grid_run[1].blocked_set
            at(k) == IndexIn(path, kept[k])
        IN  /\ Len(kept) >= 1
            /\ Len(kept) <= Len(path)
            /\ \A k \in 1..Len(kept) : \E j \in 1..Len(path) : path[j] = kept[k]
            /\ at(1) = 1
            /\ at(Len(kept)) = Len(path)
            /\ \A k \in 1..(Len(kept) - 1) :
                   /\ at(k) < at(k + 1)
                   /\ at(k + 1) = IF VisibleFrom(path, at(k), blocked_set) # {}
                                  THEN SetMax(VisibleFrom(path, at(k), blocked_set))
                                  ELSE at(k) + 1
            /\ (blocked_set = {} /\ Len(path) >= 2) => kept = << path[1], path[Len(path)] >>

\* a path was smoothed to fewer cells, more than its two ends
C26Witness ==
    /\ Smoothed
    /\ Len(grid_run[1].smoothed) >= 3
    /\ Len(grid_run[1].smoothed) < Len(grid_run[1].path)

\* the discs have been rasterized
Rasterized == grid_run # None /\ grid_run[1].stage = "raster"

\* the cells of the grid and of a margin around it
ProbeCells == ((-2)..(GridMax + 2)) \X ((-2)..(GridMax + 2))

\* the Euclidean distance from the cell to the jammer's centre scaled to the
\* grid is at most the jammer's radius scaled to the grid (lengths in
\* quarters of a cell)
WithinDisc(c, j) ==
    LET dx == QU * c[1] - GRID_SCALE * j.center[1]
        dy == QU * c[2] - GRID_SCALE * j.center[2]
        r == GRID_SCALE * j.radius
    IN  r >= 0 /\ dx * dx + dy * dy <= r * r

\* C27: a cell within the grid's bounds is blocked exactly when its
\* Euclidean distance to the scaled centre of some jammer is at most that
\* jammer's scaled radius, and no cell outside the bounds is blocked.
BlockedIffWithinSomeDisc ==
    Rasterized =>
        LET run == grid_run[1]
        IN  /\ \A c \in run.blocked_set : InGrid(c, run.grid_size)
            /\ \A c \in ProbeCells :
                   InGrid(c, run.grid_size) =>
                       ( c \in run.blocked_set
                         <=> \E k \in 1..Len(run.jammer_list) : WithinDisc(c, run.jammer_list[k]) )

\* a disc across the edge of the grid: some of its cells are blocked, and
\* one of its cells lies outside the grid
C27Witness ==
    /\ Rasterized
    /\ grid_run[1].blocked_set # {}
    /\ \E c \in ProbeCells :
           /\ ~InGrid(c, grid_run[1].grid_size)
           /\ WithinDisc(c, grid_run[1].jammer_list[1])
    /\ \E c \in ProbeCells :
           /\ InGrid(c, grid_run[1].grid_size)
           /\ c \notin grid_run[1].blocked_set

\* C28: a path returned by astar starts at the start cell and ends at the
\* goal cell, each as repaired, holds no cell twice, steps from each cell to
\* one of the eight cells around it and, when the start cell is free, holds
\* only cells within the grid's bounds that are not blocked.
PathIsSimpleAndFree ==
    (Searched /\ grid_run[1].path # None) =>
        LET run == grid_run[1]
            path == run.path
        IN  /\ path[1] = run.start
            /\ path[Len(path)] = run.goal
            /\ \A k, m \in 1..Len(path) : k # m => path[k] # path[m]
            /\ \A k \in 1..(Len(path) - 1) : Chebyshev(path[k], path[k + 1]) = 1
            /\ run.start \notin run.blocked_set
                   => \A k \in 1..Len(path) : /\ InGrid(path[k], run.grid_size)
                                              /\ path[k] \notin run.blocked_set

\* a path of several cells around a blocked cell, from a repaired start
C28Witness ==
    /\ Searched
    /\ grid_run[1].path # None
    /\ Len(grid_run[1].path) >= 4
    /\ grid_run[1].origin \in grid_run[1].blocked_set
    /\ grid_run[1].start \notin grid_run[1].blocked_set

\* a POST /plan has been handled and its reply not yet sent
PlanHandled == plan_request # None /\ plan_request[1].route = "/plan"

RequestOrigins == Get(plan_request[1].json, "origins", << >>)
RequestTargets == Get(plan_request[1].json, "targets", << >>)
RequestJammers == Get(plan_request[1].json, "jammers", << >>)

\* the indices of the request's origin/target pairs
RequestPairs == 1..Min(Len(RequestOrigins), Len(RequestTargets))

HasPoint2(e) == Has(e, "x") /\ Has(e, "y")

PairHasPoint2(i) == HasPoint2(RequestOrigins[i]) /\ HasPoint2(RequestTargets[i])

\* both endpoints of the pair have planar coordinates and A* finds no path
\* between them
PairHasNoPath(i) ==
    /\ PairHasPoint2(i)
    /\ plan_astar_path(RequestOrigins[i], RequestTargets[i], RequestJammers) = << >>

\* the blocked set plan_astar_path builds for the i-th pair of the request
PairBlockedSet(i) ==
    LET jammer_list == jammer_dicts(RequestJammers, fallback_scale_factor)
        origin_pos == <<RequestOrigins[i].x, RequestOrigins[i].y>>
        target_pos == <<RequestTargets[i].x, RequestTargets[i].y>>
    IN  rasterize(jammer_list, grid_bounds(origin_pos, target_pos, jammer_list))

PairGrid(i) ==
    grid_bounds(<<RequestOrigins[i].x, RequestOrigins[i].y>>,
                <<RequestTargets[i].x, RequestTargets[i].y>>,
                jammer_dicts(RequestJammers, fallback_scale_factor))

OriginCell(i) == grid_cell(<<RequestOrigins[i].x, RequestOrigins[i].y>>)
TargetCell(i) == grid_cell(<<RequestTargets[i].x, RequestTargets[i].y>>)

\* the planar position of a cell's centre
CellPosition(c) == [x |-> TDiv(c[1] * QU, GRID_SCALE), y |-> TDiv(c[2] * QU, GRID_SCALE)]

PlanarPosition(p) == [x |-> p.x, y |-> p.y]

\* the reply is a 200 with one trajectory for each pair of the request
AllPairsPlanned ==
    /\ PlanHandled
    /\ plan_reply[1].status = 200
    /\ Len(plan_reply[1].body.trajectories) = Cardinality(RequestPairs)

\* C13: in a returned trajectory, when the unrepaired origin cell and target
\* cell are both free, the first waypoint is the exact origin and the last
\* the exact target; a waypoint whose endpoint cell is blocked is the centre
\* of the repaired path cell.
EndpointsCorrespond ==
    AllPairsPlanned =>
        \A i \in RequestPairs :
            LET waypoints == plan_reply[1].body.trajectories[i].waypoints
                blocked_set == PairBlockedSet(i)
                first == PlanarPosition(waypoints[1])
                last == PlanarPosition(waypoints[Len(waypoints)])
            IN  /\ (OriginCell(i) \notin blocked_set /\ TargetCell(i) \notin blocked_set)
                       => /\ first = PlanarPosition(RequestOrigins[i])
                          /\ last = PlanarPosition(RequestTargets[i])
                /\ OriginCell(i) \in blocked_set
                       => first = CellPosition(nearest_free_cell(OriginCell(i), blocked_set,
                                                                PairGrid(i), max_radius))
                /\ TargetCell(i) \in blocked_set
                       => last = CellPosition(nearest_free_cell(TargetCell(i), blocked_set,
                                                               PairGrid(i), max_radius))

\* the value plan_astar_path returns for the i-th pair of the request
PairValue(i) == plan_astar_path(RequestOrigins[i], RequestTargets[i], RequestJammers)

\* the pairs of the request for which plan_astar_path returns waypoints
PairsWithPath == { i \in RequestPairs : PairValue(i) # << >> }

\* the place of pair i among the pairs with a path, in index order
PairRank(i, with_path) == Cardinality({ j \in with_path : j <= i })

\* C21: plan_mission plans the pairs (origins[i], targets[i]) for i below the
\* smaller of the two counts and no others, in index order: the trajectories
\* of a 200 reply are those of these pairs, in that order, each with the ids
\* of its origin and its target and ending at its target, whatever the
\* surplus endpoints are; and with no origins or no targets the reply is 400
\* and holds no trajectory.
PairedByIndex ==
    PlanHandled =>
        /\ (RequestOrigins = << >> \/ RequestTargets = << >>)
               => /\ plan_reply[1].status = 400
                  /\ ~Has(plan_reply[1].body, "trajectories")
        /\ plan_reply[1].status = 200
               => \A with_path \in {PairsWithPath} :
                  /\ Len(plan_reply[1].body.trajectories) = Cardinality(with_path)
                  /\ \A i \in with_path :
                         LET planned == plan_reply[1].body.trajectories[PairRank(i, with_path)]
                         IN  /\ planned.origin_id
                                    = Get(RequestOrigins[i], "id",
                                          "origin-" \o ToString(i - 1))
                             /\ planned.target_id
                                    = Get(RequestTargets[i], "id",
                                          "target-" \o ToString(i - 1))
                             /\ TargetCell(i) \notin PairBlockedSet(i)
                                    => PlanarPosition(planned.waypoints[Len(planned.waypoints)])
                                           = PlanarPosition(RequestTargets[i])

\* a request with more origins than targets has been answered with the
\* trajectories of its pairs
C21Witness ==
    /\ PlanHandled
    /\ Len(RequestOrigins) > Len(RequestTargets)
    /\ Len(RequestTargets) > 0
    /\ plan_reply[1].status = 200
    /\ Len(plan_reply[1].body.trajectories) = Len(RequestTargets)

\* C1: when A* finds no path for an origin/target pair of a POST /plan whose
\* endpoints all have planar coordinates, the reply is 200 and holds one
\* trajectory for each of the remaining pairs, fewer than there are pairs.
NoPathPairSkipped ==
    ( /\ PlanHandled
      /\ \A i \in RequestPairs : PairHasPoint2(i)
      /\ \E i \in RequestPairs : PairHasNoPath(i) )
    => /\ plan_reply[1].status = 200
       /\ Has(plan_reply[1].body, "trajectories")
       /\ Len(plan_reply[1].body.trajectories)
              = Cardinality({ i \in RequestPairs : ~PairHasNoPath(i) })
       /\ Len(plan_reply[1].body.trajectories) < Cardinality(RequestPairs)

\* C2: when an origin or a target of a pair of a POST /plan has no planar x/y,
\* the reply has a 400-class status and carries no trajectories.
MissingPoint2Rejected ==
    ( /\ PlanHandled
      /\ \E i \in RequestPairs : ~PairHasPoint2(i) )
    => /\ plan_reply[1].status \in 400..499
       /\ ~Has(plan_reply[1].body, "trajectories")

=============================================================================
